---- MODULE Spec2Model ----
(***************************************************************************)
(* webbwave: the generative ambient engine (9-voice AmbientEngine), its    *)
(* parameter mapper and its evolution timer, as a state machine.           *)
(*                                                                         *)
(* Numbers are fixed point.  Units:                                        *)
(*   normalised values (macro inputs, zoom, blend, pulse)  1/100           *)
(*   Math.random() draws                                   1/100 (0..99)   *)
(*   t-values, unfold, density, reverbMix, filter Q, e     1/10000         *)
(*   gains (AudioParam gain targets)                       1/1000000       *)
(*   filter cutoff and oscillator frequency                1/100 Hz        *)
(*   LFO and grain-modulator rates                         1/1000000 Hz    *)
(*   drift depth                                           1/1000 cent     *)
(*   right ascension, declination                          1/100 degree    *)
(*   times                                                 ms              *)
(* Array indices are 1-based: voice i of the source is index i+1.          *)
(***************************************************************************)
EXTENDS Integers, Sequences, FiniteSets, TLC

\* ------------------------------------------------------------------ bounds

\* Operations performed in one run (start, stop, updates, macros, ticks).
MaxOps == 4

\* ------------------------------------------------------------- arithmetic

Min(a, b) == IF a < b THEN a ELSE b
Max(a, b) == IF a > b THEN a ELSE b

\* clamp(value, min, max) = Math.max(min, Math.min(max, value))
clamp(value, lo, hi) == Max(lo, Min(hi, value))

\* Math.max(0, Math.min(1, value)) on hundredths
Clamp01(value) == Max(0, Min(100, value))

RECURSIVE SqrtSearch(_, _, _)
SqrtSearch(n, lo, hi) ==
  IF lo >= hi THEN lo
  ELSE LET mid == (lo + hi + 1) \div 2
       IN IF mid * mid <= n THEN SqrtSearch(n, mid, hi)
          ELSE SqrtSearch(n, lo, mid - 1)

\* floor(Math.sqrt(n)) for 0 <= n < 2^30
ISqrt(n) == SqrtSearch(n, 0, 32767)

\* 1/Math.sqrt(k) in 1/10000
InvSqrt(k) == 10000000 \div ISqrt(k * 1000000)

\* 2^(2^-k) in 1/10000, k = 1..12
Root2 == <<14142, 11892, 10905, 10443, 10219, 10109,
           10054, 10027, 10014, 10007, 10003, 10002>>

RECURSIVE Exp2Frac(_, _, _)
Exp2Frac(f, k, acc) ==
  IF k > Len(Root2) THEN acc
  ELSE IF 2 * f >= 10000
       THEN Exp2Frac(2 * f - 10000, k + 1, (acc * Root2[k]) \div 10000)
       ELSE Exp2Frac(2 * f, k + 1, acc)

RECURSIVE TwoTo(_)
TwoTo(k) == IF k <= 0 THEN 1 ELSE 2 * TwoTo(k - 1)

\* Math.pow(2, x), x and the result in 1/10000
Exp2(x) ==
  LET ip == x \div 10000
      fr == Exp2Frac(x % 10000, 1, 10000)
  IN IF ip >= 0 THEN fr * TwoTo(ip) ELSE fr \div TwoTo(0 - ip)

\* log2(4000 / 120) in 1/10000
Log2ColourSpan == 50589

\* ---------------------------------------------------------------- strings
\* A string is the sequence of its characters.

UpperChars == <<"A","B","C","D","E","F","G","H","I","J","K","L","M",
                "N","O","P","Q","R","S","T","U","V","W","X","Y","Z">>
LowerChars == <<"a","b","c","d","e","f","g","h","i","j","k","l","m",
                "n","o","p","q","r","s","t","u","v","w","x","y","z">>
DigitChars == <<"0","1","2","3","4","5","6","7","8","9">>

LowerChar(c) ==
  IF \E k \in 1..26 : UpperChars[k] = c
  THEN LowerChars[CHOOSE k \in 1..26 : UpperChars[k] = c]
  ELSE c

\* String.prototype.toLowerCase
toLowerCase(s) == [k \in 1..Len(s) |-> LowerChar(s[k])]

\* String.prototype.includes
includes(s, pat) ==
  \E k \in 1..(Len(s) - Len(pat) + 1) : SubSeq(s, k, k + Len(pat) - 1) = pat

IsDigit(c) == \E k \in 1..10 : DigitChars[k] = c
DigitValue(c) == (CHOOSE k \in 1..10 : DigitChars[k] = c) - 1

RECURSIVE parseInt(_)
parseInt(ds) ==
  IF ds = <<>> THEN 0
  ELSE 10 * parseInt(SubSeq(ds, 1, Len(ds) - 1)) + DigitValue(ds[Len(ds)])

\* ------------------------------------------------------ DataMapper.ts

\* The number NaN, which Number(x) yields for a non-numeric x and which every
\* arithmetic operation hands on.  No finite quantity of the model has this
\* value.
NaN == -999999999

\* decToFilterCutoff as it would be if it fell with the declination
decToFilterCutoffFalling(dec) ==
  LET t == ((dec + 9000) * 5) \div 9
  IN IF dec = NaN THEN NaN ELSE (200 * Exp2(3 * (10000 - t))) \div 100

\* 200 * Math.pow(8, (dec + 90) / 180), in 1/100 Hz
decToFilterCutoff(dec) ==
  LET t == ((dec + 9000) * 5) \div 9
  IN IF dec = NaN THEN NaN ELSE (200 * Exp2(3 * t)) \div 100

instrumentToHarmonics(instrument) ==
  LET l == toLowerCase(instrument)
  IN IF includes(l, <<"n","i","r","s","p","e","c">>) THEN 4
     ELSE IF includes(l, <<"n","i","r","c","a","m">>) THEN 3
     ELSE IF includes(l, <<"m","i","r","i">>) THEN 2
     ELSE IF includes(l, <<"n","i","r","i","s","s">>) THEN 3
     ELSE IF includes(l, <<"f","g","s">>) THEN 1
     ELSE 3

filterToReverbMix(filter) ==
  LET digits == SelectSeq(filter, IsDigit)
  IN IF Len(digits) > 0
     THEN Max(2500, Min(9000, (parseInt(digits) * 10000) \div 2550))
     ELSE 5500

targetTypeToDensity(type) ==
  LET l == toLowerCase(type)
  IN IF includes(l, <<"n","e","b","u","l","a">>) THEN 9000
     ELSE IF includes(l, <<"g","a","l","a","x","y">>) THEN 8000
     ELSE IF includes(l, <<"f","i","e","l","d">>) THEN 10000
     ELSE IF includes(l, <<"c","l","u","s","t","e","r">>) THEN 6000
     ELSE IF includes(l, <<"s","t","a","r">>) THEN 3000
     ELSE 5000

mapObservation(obs) ==
  [filterCutoffHz |-> decToFilterCutoff(obs.dec),
   reverbMix      |-> filterToReverbMix(obs.filter),
   lfoRateHz      |-> IF obs.ra = NaN THEN NaN ELSE 8000 + (obs.ra * 35) \div 18,
   harmonicCount  |-> instrumentToHarmonics(obs.instrument),
   density        |-> targetTypeToDensity(obs.targetType)]

\* JWSTFetcher.ts DEFAULT_OBSERVATION
DEFAULT_OBSERVATION ==
  [ra |-> 11084, dec |-> -7345,
   instrument |-> <<"N","I","R","C","a","m">>,
   filter     |-> <<"F","2","7","7","W">>,
   targetType |-> <<"g","a","l","a","x","y"," ","c","l","u","s","t","e","r">>]

\* ------------------------------------------- AmbientEngine (9 voices)

\* RAMP_TIME_S, in ms
RAMP_TIME_MS == 4000

\* ROOT_HZ, in 1/100 Hz
ROOT_HZ == 5500

CHORD_MODES ==
  [MAJ  |-> <<0, 7, 12, 16, 19, 24, 31, 36, 43>>,
   MIN  |-> <<0, 7, 12, 15, 19, 24, 31, 36, 43>>,
   DOM7 |-> <<0, 7, 10, 12, 16, 19, 24, 31, 34>>,
   MAJ7 |-> <<0, 7, 11, 12, 16, 19, 24, 31, 35>>,
   SUS4 |-> <<0, 5, 7, 12, 17, 19, 24, 31, 36>>,
   MIN7 |-> <<0, 7, 10, 12, 15, 19, 24, 31, 34>>]

\* buildFreqs as it would be if an unknown mode fell back to the minor chord
buildFreqsDefaultMinor(rootSemitones, mode) ==
  LET intervals == IF mode \in DOMAIN CHORD_MODES THEN CHORD_MODES[mode]
                   ELSE CHORD_MODES["MIN"]
  IN [k \in 1..Len(intervals) |->
        (ROOT_HZ * Exp2(((rootSemitones + intervals[k]) * 10000) \div 12))
          \div 10000]

\* CHORD_MODES[mode] ?? CHORD_MODES["MAJ"], then ROOT_HZ * 2^((root + iv) / 12)
buildFreqs(rootSemitones, mode) ==
  LET intervals == IF mode \in DOMAIN CHORD_MODES THEN CHORD_MODES[mode]
                   ELSE CHORD_MODES["MAJ"]
  IN [k \in 1..Len(intervals) |->
        (ROOT_HZ * Exp2(((rootSemitones + intervals[k]) * 10000) \div 12))
          \div 10000]

\* buildGrainCloud's default count
GrainCount == 6

\* Math.random(): the draws of one call of start() or of one tick, in 1/100.
\* Draw k of a call takes entry k of the stream, cyclically.
RandStreams == << <<0, 99, 50, 25>>, <<99, 0, 25, 75>> >>

Rand(r, k) == RandStreams[r][((k - 1) % Len(RandStreams[r])) + 1]

\* Math.random() * 2 - 1, in 1/100
Signed(r, k) == 2 * Rand(r, k) - 100

\* The thresholds as they would be if the root voice were gated like the others
thresholdsRootGated == <<0, 10, 22, 34, 48, 60, 72, 82, 90>>

\* _applyZoom's tables, in 1/100
thresholds == <<-12, 10, 22, 34, 48, 60, 72, 82, 90>>
baseGains  == <<100, 88, 78, 64, 52, 42, 32, 23, 17>>

\* MASTER = 0.36 / Math.sqrt(this.voices.length)
MasterLevel(n) == 360000000 \div ISqrt(n * 1000000)

\* The presence as it would be with a floor of 1/12 instead of 0
PresenceFloor(value, i) == Max(1, Min(12, value - thresholds[i]))

\* 4-voice variant: Math.max(0, Math.min(1, value * 4 - i + 1)), in 1/100
Presence4(value, i) == Max(0, Min(100, 4 * value - 100 * (i - 1) + 100))

\* Math.max(0, Math.min(1, (value - thresholds[i]) / 0.12)), in 1/12
Presence(value, i) == Max(0, Min(12, value - thresholds[i]))

\* 0.15 + 0.85 * _unfoldAmount for the last two voices of the bank, else 1
UnfoldFactor(i, n, unfoldAmount) ==
  IF i >= n - 1 THEN 1500 + (85 * unfoldAmount) \div 100 ELSE 10000

\* MASTER * baseGains[i] * presence * _voiceDensity[i] * unfold
VoiceTarget(i, n, value, density, unfoldAmount) ==
  LET a == (MasterLevel(n) * baseGains[i]) \div 100
      b == (a * Presence(value, i)) \div 12
      c == (b * density) \div 10000
  IN (c * UnfoldFactor(i, n, unfoldAmount)) \div 10000

\* A voice whose target is not a finite number: thresholds[i], baseGains[i]
\* or _voiceDensity[i] is undefined, and the product is NaN.
TargetIsNaN(E, i) == i > Len(thresholds) \/ i > Len(E.voiceDensity)

\* AudioParam.setTargetAtTime(target, ...) takes a float: a NaN target raises
\* a TypeError, and the forEach stops at that voice.
VoicesWritten(E) ==
  LET n == Len(E.voices)
      bad == {i \in 1..n : TargetIsNaN(E, i)}
  IN IF bad = {} THEN n
     ELSE (CHOOSE i \in bad : \A j \in bad : i <= j) - 1

ZoomVoices(E, value) ==
  LET n == Len(E.voices)
      k == VoicesWritten(E)
  IN [E EXCEPT
        !.voices = [i \in 1..n |->
           IF i <= k
           THEN [E.voices[i] EXCEPT
                   !.gain = VoiceTarget(i, n, value, E.voiceDensity[i],
                                        E.unfoldAmount),
                   !.sched = TRUE]
           ELSE E.voices[i]],
        !.gainWriters = IF n > 0 THEN @ \cup {"_applyZoom"} ELSE @,
        !.threw = (k < n)]

ZoomGrainOut(value) == 50000 + 7000 * value
ZoomFeedback(value) == 200000 + 3000 * value
ZoomLfoDepth(value) == 10000 + 300 * value
ZoomQ(value)        == 28000 - 200 * value

\* The shared zoom writes as they would be if the filter Q and the LFO depth
\* were moved from their current targets instead of being set
ZoomSharedRelative(E, value) ==
  [E EXCEPT
     !.grainOutputGain = ZoomGrainOut(value),
     !.grainLines = [j \in 1..Len(E.grainLines) |->
        [E.grainLines[j] EXCEPT !.feedback = ZoomFeedback(value)]],
     !.fbWritten = IF E.grainLines = <<>> THEN @
                   ELSE @ \cup {ZoomFeedback(value)},
     !.lfoGain = E.lfoGain + 300 * value,
     !.filterQ = E.filterQ - 200 * value]

ZoomShared(E, value) ==
  [E EXCEPT
     !.grainOutputGain = ZoomGrainOut(value),
     !.grainLines = [j \in 1..Len(E.grainLines) |->
        [E.grainLines[j] EXCEPT !.feedback = ZoomFeedback(value)]],
     !.fbWritten = IF E.grainLines = <<>> THEN @
                   ELSE @ \cup {ZoomFeedback(value)},
     !.lfoGain = ZoomLfoDepth(value),
     !.filterQ = ZoomQ(value)]

applyZoom(E, value) ==
  IF ~E.ctx THEN E
  ELSE LET V == ZoomVoices(E, value)
       IN IF V.threw THEN V ELSE ZoomShared(V, value)

\* ---- automation timelines
\* Of the events scheduled on an AudioParam, the one with the latest time
\* decides the value the parameter settles to.  An entry keeps that event:
\* its value, and how far in the future its time still is (left, 0 if it is
\* not in the future).

Event(value, left) == [value |-> value, left |-> left]

\* param.setTargetAtTime(target, now, tc): an event at the current time.  It
\* is the latest event unless a ramp is pending, whose end lies after it.
setTargetAtTime(ev, target) == IF ev.left > 0 THEN ev ELSE Event(target, 0)

\* param.linearRampToValueAtTime(value, now + dur): an event at now + dur.  It
\* is the latest event unless a pending ramp ends after it.
linearRampToValueAtTime(ev, value, dur) ==
  IF dur >= ev.left THEN Event(value, dur) ELSE ev

\* The entry after dur ms have passed
Later(ev, dur) == [ev EXCEPT !.left = Max(0, @ - dur)]

\* ---- construction

\* Class field initialisers of AmbientEngine, and an empty host environment:
\* nodes are the oscillators started so far, timers the armed intervals.
NewEngine ==
  [ctx |-> FALSE, voices |-> <<>>, grainLines |-> <<>>,
   grainInputGain |-> 0, grainOutputGain |-> 0,
   filterFreq |-> 0, filterQ |-> 0, reverbGain |-> 0, dryGain |-> 0,
   masterGain |-> 0, masterRampMs |-> 0, lfo |-> 0, lfoFreq |-> 0,
   lfoGain |-> 0,
   blend |-> 80, cutoffOverride |-> <<>>, isStarted |-> FALSE,
   zoomNorm |-> 20,
   voiceDensity |-> [i \in 1..9 |-> 10000],
   rootSemitones |-> 0, chordMode |-> "MAJ", unfoldAmount |-> 2500,
   evolveTimer |-> 0, pulseAmount |-> 25,
   nodes |-> <<>>, timers |-> {}, timerSeq |-> 0, session |-> 0,
   ticks |-> 0, gainWriters |-> {}, fbWritten |-> {}, threw |-> FALSE,
   timeline |-> [masterGain |-> Event(0, 0), filterFreq |-> Event(0, 0),
                 reverbGain |-> Event(0, 0), dryGain |-> Event(0, 0),
                 lfoFreq |-> Event(0, 0), grainOutput |-> <<>>]]

\* The oscillators one start() starts, in the order it starts them: the LFO,
\* then osc and driftOsc of each voice, then each grain line's modOsc.
NodeKind(k, nv) ==
  IF k = 1 THEN "lfo"
  ELSE IF k > 1 + 2 * nv THEN "modOsc"
  ELSE IF k % 2 = 0 THEN "osc" ELSE "driftOsc"

NewVoice(E, r, i, base, sess) ==
  [osc |-> base + 2 * i, driftOsc |-> base + 2 * i + 1,
   gain |-> 0, sched |-> FALSE,
   freq |-> buildFreqs(E.rootSemitones, E.chordMode)[i],
   driftRate |-> 4000 + 300 * Rand(r, 2 * i - 1),
   driftGain |-> 1500 + 45 * Rand(r, 2 * i),
   sess |-> sess]

\* buildGrainCloud: one line, its four random draws after the voices' draws
NewGrainLine(r, j, d, node) ==
  [delayTime  |-> 40000 + 1800 * Rand(r, d + 4 * (j - 1) + 1),
   modGain    |-> 8000 + 220 * Rand(r, d + 4 * (j - 1) + 2),
   modRate    |-> 80000 + 4000 * Rand(r, d + 4 * (j - 1) + 3),
   feedback   |-> 250000 + 3000 * Rand(r, d + 4 * (j - 1) + 4),
   inputGain  |-> 1000000 \div GrainCount,
   outputGain |-> 0, outRampMs |-> 0,
   modOsc     |-> node]

startEvolution(E) ==
  IF E.evolveTimer # 0 \/ ~E.ctx THEN E
  ELSE [E EXCEPT !.timerSeq = @ + 1,
                 !.evolveTimer = E.timerSeq + 1,
                 !.timers = @ \cup {E.timerSeq + 1}]

\* start(): everything up to the zoom application
StartGraph(E, r) ==
  LET nv   == Len(buildFreqs(E.rootSemitones, E.chordMode))
      base == Len(E.nodes)
      sess == E.session + 1
  IN [E EXCEPT
        !.ctx = TRUE, !.isStarted = TRUE, !.session = sess,
        !.masterGain = 800000, !.masterRampMs = 2000,
        !.reverbGain = 1000000, !.dryGain = 240000,
        !.filterFreq = 120000, !.filterQ = 12000,
        !.lfoGain = 20000, !.lfoFreq = 30000, !.lfo = base + 1,
        !.voices = @ \o [i \in 1..nv |-> NewVoice(E, r, i, base, sess)],
        !.grainInputGain = 500000, !.grainOutputGain = 0,
        !.grainLines = [j \in 1..GrainCount |->
                          NewGrainLine(r, j, 2 * nv, base + 1 + 2 * nv + j)],
        !.nodes = @ \o [k \in 1..(1 + 2 * nv + GrainCount) |->
                          [kind |-> NodeKind(k, nv), stopAt |-> 0,
                           sess |-> sess]],
        !.timeline =
           [masterGain |-> linearRampToValueAtTime(Event(0, 0), 800000, 2000),
            filterFreq |-> Event(120000, 0),
            reverbGain |-> Event(1000000, 0),
            dryGain    |-> Event(240000, 0),
            lfoFreq    |-> Event(30000, 0),
            grainOutput |-> [j \in 1..GrainCount |-> Event(0, 0)]]]

\* start(): the grain bloom and the evolution timer, after the zoom application
StartBloom(E) ==
  startEvolution(
    [E EXCEPT
       !.grainLines = [j \in 1..Len(E.grainLines) |->
          [E.grainLines[j] EXCEPT !.outputGain = 600000,
                                  !.outRampMs = 3000 + 150 * (j - 1)]],
       !.timeline.grainOutput = [j \in 1..Len(E.grainLines) |->
          linearRampToValueAtTime(@[j], 600000, 3000 + 150 * (j - 1))]])

start(E, r) ==
  LET Z == applyZoom(StartGraph(E, r), E.zoomNorm)
  IN IF Z.threw THEN Z ELSE StartBloom(Z)

\* ---- data and coordinates

\* Math.round((p.harmonicCount / 4) * this.voices.length)
ScaledCount(harmonicCount, n) == (2 * harmonicCount * n + 4) \div 8

\* updateFromData: filter, reverb, dry and LFO rate ramps
DataParams(E, p) ==
  [E EXCEPT
     !.filterFreq = IF E.cutoffOverride = <<>> THEN p.filterCutoffHz ELSE @,
     !.reverbGain = ((600000 + 120 * p.reverbMix) * E.blend) \div 100,
     !.dryGain = Max(20000, 200000 - 18 * p.reverbMix),
     !.lfoFreq = p.lfoRateHz,
     !.timeline.filterFreq =
        IF E.cutoffOverride = <<>>
        THEN linearRampToValueAtTime(@, p.filterCutoffHz, RAMP_TIME_MS) ELSE @,
     !.timeline.reverbGain =
        linearRampToValueAtTime(@, ((600000 + 120 * p.reverbMix) * E.blend)
                                     \div 100, RAMP_TIME_MS),
     !.timeline.dryGain =
        linearRampToValueAtTime(@, Max(20000, 200000 - 18 * p.reverbMix),
                                RAMP_TIME_MS),
     !.timeline.lfoFreq = linearRampToValueAtTime(@, p.lfoRateHz, RAMP_TIME_MS)]

\* The density step as it would be if it also ramped each voice gain itself
DataDensityDirect(E, p) ==
  LET n == Len(E.voices)
      c == ScaledCount(p.harmonicCount, n)
  IN [E EXCEPT
        !.voiceDensity =
           [i \in 1..Max(n, Len(E.voiceDensity)) |->
              IF i <= n THEN (IF i <= c THEN p.density ELSE 0)
              ELSE E.voiceDensity[i]],
        !.voices = [i \in 1..n |->
           [E.voices[i] EXCEPT
              !.gain = IF i <= c THEN (25 * p.density) \div ISqrt(c) ELSE 0,
              !.sched = TRUE]],
        !.gainWriters = @ \cup {"updateFromData"}]

\* updateFromData: this._voiceDensity[i] = i < scaledCount ? p.density : 0
DataDensity(E, p) ==
  LET n == Len(E.voices)
      c == ScaledCount(p.harmonicCount, n)
  IN [E EXCEPT !.voiceDensity =
        [i \in 1..Max(n, Len(E.voiceDensity)) |->
           IF i <= n THEN (IF i <= c THEN p.density ELSE 0)
           ELSE E.voiceDensity[i]]]

DataFeedback(density) == 200000 + 30 * density

\* updateFromData: grain feedback from the target type's density
DataGrain(E, p) ==
  [E EXCEPT
     !.grainLines = [j \in 1..Len(E.grainLines) |->
        [E.grainLines[j] EXCEPT !.feedback = DataFeedback(p.density)]],
     !.fbWritten = IF E.grainLines = <<>> THEN @
                   ELSE @ \cup {DataFeedback(p.density)}]

updateFromData(E, obs) ==
  IF ~E.ctx \/ ~E.isStarted THEN E
  ELSE LET p == mapObservation(obs)
       IN applyZoom(DataGrain(DataDensity(DataParams(E, p), p), p), E.zoomNorm)

\* Math.max(0, Math.min(1, ra / 360)), in 1/10000
TRa(ra) == Max(0, Min(10000, (ra * 5) \div 18))
\* Math.max(0, Math.min(1, (dec + 90) / 180)), in 1/10000
TDec(dec) == Max(0, Min(10000, ((dec + 9000) * 5) \div 9))

\* shimmer = tRA * 0.5 + tDec * 0.3
Shimmer(tRA, tDec) == (5 * tRA + 3 * tDec) \div 10

CoordsFeedback(shimmer) == 150000 + 40 * shimmer

\* updateFromCoords: every write before the density weights
CoordsParams(E, tRA, tDec) ==
  LET shimmer == Shimmer(tRA, tDec)
  IN [E EXCEPT
        !.filterFreq = IF E.cutoffOverride = <<>>
                       THEN (200 * Exp2(3 * tDec)) \div 100 ELSE @,
        !.filterQ = 5000 + (35 * tDec) \div 10,
        !.reverbGain = ((500000 + 100 * tRA) * E.blend) \div 100,
        !.dryGain = Max(20000, 200000 - 18 * tRA),
        !.lfoGain = 8000 + (25 * (10000 - tDec)) \div 10,
        !.lfoFreq = 8000 + 10 * tRA,
        !.grainLines = [j \in 1..Len(E.grainLines) |->
           [E.grainLines[j] EXCEPT !.feedback = CoordsFeedback(shimmer),
                                   !.outputGain = 300000 + 50 * shimmer,
                                   !.outRampMs = 0]],
        !.fbWritten = IF E.grainLines = <<>> THEN @
                      ELSE @ \cup {CoordsFeedback(shimmer)},
        !.grainInputGain = 300000 + 50 * shimmer,
        !.timeline.filterFreq =
           IF E.cutoffOverride = <<>>
           THEN setTargetAtTime(@, (200 * Exp2(3 * tDec)) \div 100) ELSE @,
        !.timeline.reverbGain =
           setTargetAtTime(@, ((500000 + 100 * tRA) * E.blend) \div 100),
        !.timeline.dryGain = setTargetAtTime(@, Max(20000, 200000 - 18 * tRA)),
        !.timeline.lfoFreq = setTargetAtTime(@, 8000 + 10 * tRA),
        !.timeline.grainOutput = [j \in 1..Len(E.grainLines) |->
           setTargetAtTime(@[j], 300000 + 50 * shimmer)]]

\* updateFromCoords: thresh = Math.round(tDec * (voices.length - 1)), then
\* this._voiceDensity[i] = i <= thresh ? 1 / Math.sqrt(thresh + 1) : 0
CoordsDensity(E, tDec) ==
  LET n == Len(E.voices)
      thresh == (2 * tDec * (n - 1) + 10000) \div 20000
  IN [E EXCEPT !.voiceDensity =
        [i \in 1..Max(n, Len(E.voiceDensity)) |->
           IF i <= n THEN (IF i - 1 <= thresh THEN InvSqrt(thresh + 1) ELSE 0)
           ELSE E.voiceDensity[i]]]

updateFromCoords(E, ra, dec) ==
  IF ~E.ctx \/ ~E.isStarted THEN E
  ELSE applyZoom(CoordsDensity(CoordsParams(E, TRa(ra), TDec(dec)), TDec(dec)),
                 E.zoomNorm)

\* ---- macro controls (value in 1/100)

VolumeTarget(value) == 8200 * value

setVolume(E, value) ==
  IF ~E.ctx THEN E
  ELSE [E EXCEPT !.masterGain = VolumeTarget(value), !.masterRampMs = 0,
                 !.timeline.masterGain =
                    setTargetAtTime(@, VolumeTarget(value))]

SpaceWet(value)      == 320000 + 11500 * value
SpaceDry(value)      == Max(80000, 300000 - 1600 * value)
SpaceGrainOut(value) == 200000 + 12000 * value
SpaceGrainFb(value)  == 350000 + 4500 * value

\* setSpace: the writes after the blend is stored
SpaceWrites(E, value) ==
  [E EXCEPT
     !.reverbGain = SpaceWet(value),
     !.dryGain = SpaceDry(value),
     !.grainLines = [j \in 1..Len(E.grainLines) |->
        [E.grainLines[j] EXCEPT !.outputGain = SpaceGrainOut(value),
                                !.outRampMs = 0,
                                !.feedback = SpaceGrainFb(value)]],
     !.fbWritten = IF E.grainLines = <<>> THEN @
                   ELSE @ \cup {SpaceGrainFb(value)},
     !.timeline.reverbGain = setTargetAtTime(@, SpaceWet(value)),
     !.timeline.dryGain = setTargetAtTime(@, SpaceDry(value)),
     !.timeline.grainOutput = [j \in 1..Len(E.grainLines) |->
        setTargetAtTime(@[j], SpaceGrainOut(value))]]

\* setSpace as it would be if it re-asserted the zoom shape like the updates do
setSpaceThenZoom(E, value) ==
  LET B == [E EXCEPT !.blend = Clamp01(value)]
  IN IF ~B.ctx THEN B ELSE applyZoom(SpaceWrites(B, value), B.zoomNorm)

setSpace(E, value) ==
  LET B == [E EXCEPT !.blend = Clamp01(value)]
  IN IF ~B.ctx THEN B ELSE SpaceWrites(B, value)

\* 120 * Math.pow(4000 / 120, value), in 1/100 Hz
ColourHz(value) == (120 * Exp2((value * Log2ColourSpan) \div 100)) \div 100
\* 0.5 + value * value * 6
ColourQ(value) == 5000 + 6 * value * value

\* setColour: the writes after the override is stored
ColourWrites(E, value) ==
  [E EXCEPT !.filterFreq = ColourHz(value), !.filterQ = ColourQ(value),
            !.timeline.filterFreq = setTargetAtTime(@, ColourHz(value))]

setColour(E, value) ==
  LET C == [E EXCEPT !.cutoffOverride = <<value>>]
  IN IF ~C.ctx THEN C ELSE ColourWrites(C, value)

ScatterFeedback(value) == 50000 + 5500 * value
ScatterInput(value)    == 150000 + 6500 * value
ScatterModDepth(value) == 350 * value

setScatter(E, value) ==
  IF ~E.ctx THEN E
  ELSE [E EXCEPT
          !.grainLines = [j \in 1..Len(E.grainLines) |->
             [E.grainLines[j] EXCEPT !.feedback = ScatterFeedback(value),
                                     !.modGain = ScatterModDepth(value)]],
          !.fbWritten = IF E.grainLines = <<>> THEN @
                        ELSE @ \cup {ScatterFeedback(value)},
          !.grainInputGain = ScatterInput(value)]

PulseRate(pulse)  == 3000 + 2170 * pulse
PulseDepth(pulse) == 5000 + 850 * pulse

\* setPulse: _pulseAmount = clamp(value, 0, 1), then rate and depth from it
PulseWrites(E, value) ==
  LET pulse == clamp(value, 0, 100)
  IN [E EXCEPT !.pulseAmount = pulse,
               !.lfoFreq = PulseRate(pulse),
               !.lfoGain = PulseDepth(pulse),
               !.timeline.lfoFreq = setTargetAtTime(@, PulseRate(pulse))]

setPulse(E, value) == IF ~E.ctx THEN E ELSE PulseWrites(E, value)

setZoom(E, value) ==
  LET Z == [E EXCEPT !.zoomNorm = Clamp01(value)]
  IN IF ~Z.ctx \/ ~Z.isStarted THEN Z ELSE applyZoom(Z, Z.zoomNorm)

\* setChord: freqs[i] is undefined past the mode's 9 intervals, and
\* setTargetAtTime(undefined, ...) raises a TypeError at that voice.
setChord(E, rootSemitones, mode) ==
  LET C == [E EXCEPT !.rootSemitones = rootSemitones, !.chordMode = mode]
      freqs == buildFreqs(rootSemitones, mode)
      n == Len(E.voices)
  IN IF ~C.ctx \/ ~C.isStarted THEN C
     ELSE [C EXCEPT
             !.voices = [i \in 1..n |->
                IF i <= Len(freqs) THEN [E.voices[i] EXCEPT !.freq = freqs[i]]
                ELSE E.voices[i]],
             !.threw = (n > Len(freqs))]

\* ---- evolution

\* e = 0.15 + this._pulseAmount * 0.85, in 1/10000
Intensity(pulse) == 1500 + 85 * pulse

\* The random-walk step without its clamp
WalkUnclamped(value, signed, span, lo, hi) == value + (signed * span) \div 100

\* value + (Math.random() * 2 - 1) * (base + e * slope), clamped
Walk(value, signed, span, lo, hi) == clamp(value + (signed * span) \div 100, lo, hi)

\* The value an AudioParam reads as when the timer fires is taken to be the
\* target it was last given (it has settled on it).
EvolveFilter(E, r, e) ==
  LET baseHz == IF E.cutoffOverride # <<>> THEN ColourHz(E.cutoffOverride[1])
                ELSE E.filterFreq
      factor == 1000 + (Signed(r, 2) * (120 + (45 * e) \div 1000)) \div 100
      hz == clamp(((baseHz \div 10) * factor) \div 100, 14000, 550000)
  IN [E EXCEPT
        !.filterFreq = hz,
        !.filterQ = Walk(E.filterQ, Signed(r, 3), 2000 + (14 * e) \div 10,
                         3000, 80000),
        !.timeline.filterFreq = setTargetAtTime(@, hz)]

EvolveSpace(E, r, e) ==
  LET wet == Walk(SpaceWet(E.blend), Signed(r, 4), 80000 + 35 * e,
                  150000, 2200000)
      dry == Walk(SpaceDry(E.blend), Signed(r, 5), 40000 + 14 * e,
                  30000, 500000)
  IN [E EXCEPT
        !.reverbGain = wet,
        !.dryGain = dry,
        !.timeline.reverbGain = setTargetAtTime(@, wet),
        !.timeline.dryGain = setTargetAtTime(@, dry)]

\* The feedback walk without its clamp
EvolveFeedbackUnclamped(fb, signed, e) == fb + (signed * (30000 + 12 * e)) \div 100

EvolveFeedback(fb, signed, e) == Walk(fb, signed, 30000 + 12 * e, 80000, 900000)

EvolveGrain(E, r, e) ==
  LET d(j) == 5 + 3 * (j - 1)
      fb(j) == EvolveFeedback(E.grainLines[j].feedback, Signed(r, d(j) + 3), e)
  IN [E EXCEPT
        !.grainLines = [j \in 1..Len(E.grainLines) |->
           [E.grainLines[j] EXCEPT
              !.modRate = 30000 + (Rand(r, d(j) + 1) * (120000 + 33 * e)) \div 100,
              !.modGain = Walk(@, Signed(r, d(j) + 2), 2000 + (14 * e) \div 10,
                               3000, 60000),
              !.feedback = fb(j)]],
        !.fbWritten = @ \cup {fb(j) : j \in 1..Len(E.grainLines)}]

EvolveDrift(E, r, e) ==
  LET d == 5 + 3 * Len(E.grainLines)
  IN [E EXCEPT !.voices = [i \in 1..Len(E.voices) |->
        [E.voices[i] EXCEPT
           !.driftGain = Walk(@, Signed(r, d + i), 800 + (6 * e) \div 10,
                              800, 24000)]]]

\* The setInterval callback of _startEvolution
evolve(E, r) ==
  IF ~E.ctx \/ ~E.isStarted THEN E
  ELSE LET e == Intensity(E.pulseAmount)
           U == [E EXCEPT
                   !.ticks = @ + 1,
                   !.unfoldAmount = Walk(@, Signed(r, 1), 1200 + (34 * e) \div 100,
                                         0, 10000)]
       IN applyZoom(EvolveDrift(EvolveGrain(EvolveSpace(EvolveFilter(U, r, e),
                                                        r, e), r, e), r, e),
                    E.zoomNorm)

\* ---- stop

StopOffsetMs == 600
FadeOutMs == 500

\* stop()'s reach as it would be if the drift oscillators were forgotten
ReachedNoDrift(E) ==
  {E.lfo} \cup {E.grainLines[j].modOsc : j \in 1..Len(E.grainLines)}
          \cup {E.voices[i].osc : i \in 1..Len(E.voices)}

\* The oscillators stop() reaches: this.lfo, each grain line's modOsc, each
\* voice's osc and driftOsc.
Reached(E) ==
  {E.lfo} \cup {E.grainLines[j].modOsc : j \in 1..Len(E.grainLines)}
          \cup {E.voices[i].osc : i \in 1..Len(E.voices)}
          \cup {E.voices[i].driftOsc : i \in 1..Len(E.voices)}

\* stop() as it would be without clearInterval
stopKeepTimer(E) ==
  IF ~E.ctx THEN E
  ELSE [E EXCEPT
          !.masterGain = 0, !.masterRampMs = FadeOutMs,
          !.timeline.masterGain = linearRampToValueAtTime(@, 0, FadeOutMs),
          !.nodes = [k \in 1..Len(E.nodes) |->
             IF k \in Reached(E) THEN [E.nodes[k] EXCEPT !.stopAt = StopOffsetMs]
             ELSE E.nodes[k]],
          !.isStarted = FALSE]

stop(E) ==
  IF ~E.ctx THEN E
  ELSE [E EXCEPT
          !.timers = IF E.evolveTimer # 0 THEN @ \ {E.evolveTimer} ELSE @,
          !.evolveTimer = 0,
          !.masterGain = 0, !.masterRampMs = FadeOutMs,
          !.timeline.masterGain = linearRampToValueAtTime(@, 0, FadeOutMs),
          !.nodes = [k \in 1..Len(E.nodes) |->
             IF k \in Reached(E) THEN [E.nodes[k] EXCEPT !.stopAt = StopOffsetMs]
             ELSE E.nodes[k]],
          !.isStarted = FALSE]

\* ------------------------------------------------------------ JWSTFetcher
\* The poller of /api/jwst.  An ObservationData is a record of the snapshot's
\* fields; timestamps are readings of a clock that moves with every poll, 0
\* being the time the module was loaded.

Stamp(obs, targetName, timestamp) ==
  [ra |-> obs.ra, dec |-> obs.dec, instrument |-> obs.instrument,
   filter |-> obs.filter, targetType |-> obs.targetType,
   targetName |-> targetName, timestamp |-> timestamp]

\* DEFAULT_OBSERVATION as ObservationData: its timestamp is the load time
DefaultData == Stamp(DEFAULT_OBSERVATION, "SMACS 0723", 0)

\* { ...DEFAULT_OBSERVATION, timestamp: new Date() }
FreshDefault(now) == [DefaultData EXCEPT !.timestamp = now]

\* /DARK|FLAT|BIAS|LAMP|FOCUS/
CalibrationTypes ==
  {<<"D","A","R","K">>, <<"F","L","A","T">>, <<"B","I","A","S">>,
   <<"L","A","M","P">>, <<"F","O","C","U","S">>}

\* r.targprop && r.targprop !== "UNKNOWN" && !String(r.exp_type).match(...)
\* ("" stands for a targprop that is absent)
IsScience(r) ==
  /\ r.targprop # ""
  /\ r.targprop # "UNKNOWN"
  /\ ~\E pat \in CalibrationTypes : includes(r.exp_type, pat)

\* results.find(science) ?? results[0]
FindObservation(results) ==
  LET sci == {k \in 1..Len(results) : IsScience(results[k])}
  IN IF sci = {} THEN results[1]
     ELSE results[CHOOSE k \in sci : \A m \in sci : k <= m]

\* fetchFromMAST, given what fetch("/api/jwst") came to: it raises on a
\* network error, a timeout or a body that is not JSON, returns the default
\* on a non-OK status or an empty result list, else the converted row.
fetchFromMAST(resp, now) ==
  IF resp.kind \in {"error", "timeout", "badjson"}
  THEN [raised |-> TRUE, data |-> <<>>]
  ELSE IF resp.kind = "status" \/ resp.results = <<>>
  THEN [raised |-> FALSE, data |-> <<FreshDefault(now)>>]
  ELSE LET obs == FindObservation(resp.results)
       IN [raised |-> FALSE,
           data |-> <<Stamp([ra |-> obs.targ_ra, dec |-> obs.targ_dec,
                             instrument |-> obs.instrume,
                             filter |-> obs.opticalElements,
                             targetType |-> toLowerCase(obs.targtype)],
                            IF obs.targprop = "" THEN "Unknown"
                            ELSE obs.targprop, now)>>]

NewFetcher ==
  [callback |-> FALSE, intervalId |-> 0, intervalSeq |-> 0, intervals |-> {},
   inFlight |-> 0, begun |-> 0, polls |-> 0, clock |-> 0,
   delivered |-> <<>>, rejected |-> FALSE,
   lastResp |-> [kind |-> "none", results |-> <<>>]]

\* JWSTFetcher.start(callback)
fetcherStart(F) ==
  [F EXCEPT !.callback = TRUE,
            !.inFlight = @ + 1, !.begun = @ + 1,
            !.intervalSeq = @ + 1,
            !.intervalId = F.intervalSeq + 1,
            !.intervals = @ \cup {F.intervalSeq + 1}]

\* JWSTFetcher.stop()
fetcherStop(F) ==
  IF F.intervalId = 0 THEN F
  ELSE [F EXCEPT !.intervals = @ \ {F.intervalId}, !.intervalId = 0]

\* JWSTFetcher.fetch(), from the point its request has come to resp.  The
\* callback is invoked inside the try block: raises[k] tells whether the k-th
\* invocation of this poll raises.  delivered lists the data handed to the
\* callback, rejected tells whether the promise of fetch() was rejected.
fetch(F, resp, raises) ==
  LET now == F.clock + 1
      R == fetchFromMAST(resp, now)
      tried == IF R.raised \/ ~F.callback THEN <<>> ELSE R.data
      caught == R.raised \/ (tried # <<>> /\ raises[1])
      handled == IF caught /\ F.callback THEN <<FreshDefault(now)>> ELSE <<>>
  IN [F EXCEPT
        !.clock = now, !.inFlight = @ - 1, !.polls = @ + 1,
        !.lastResp = resp,
        !.delivered = tried \o handled,
        !.rejected = handled # <<>> /\ raises[Len(tried) + 1]]

\* ------------------------------------------------------ /api/jwst proxy
\* The serverless handler (variant "vercel") and the dev-server middleware
\* (variant "vite").  Bodies are strings, "" the empty body; cachedBody is
\* <<>> for null and <<body>> otherwise.  Times are ms.

CACHE_TTL == 300000

FALLBACK_BODY == "FALLBACK_BODY"

\* if (cachedBody): null and the empty string are falsy
Truthy(cachedBody) == cachedBody # <<>> /\ cachedBody[1] # ""

\* requests: handler invocations so far; inFlight: the times at which the
\* upstream requests still awaited were issued; issued: for every upstream
\* request ever issued, its time, whether a successful fetch had completed
\* less than CACHE_TTL before, and whether another one was in flight;
\* okBodies: the bodies of the successful upstream responses so far; last:
\* the last response written and what it answered.
NewProxy(variant) ==
  [variant |-> variant, cachedBody |-> <<>>, cacheTime |-> 0,
   now |-> 1000000, advances |-> 0, requests |-> 0,
   inFlight |-> <<>>, issued |-> <<>>, lastOk |-> <<>>, okBodies |-> {},
   everCached |-> FALSE, last |-> <<>>]

\* res.end(body) with the headers set so far.  The serverless handler sets
\* Access-Control-Allow-Origin first thing; the middleware never sets it.
Respond(P, method, outcome, status, xcache, body) ==
  [P EXCEPT !.last = <<[method |-> method, outcome |-> outcome,
                        status |-> status, xcache |-> xcache,
                        cors |-> (P.variant = "vercel"), body |-> body,
                        cachedBefore |-> P.cachedBody,
                        everCachedBefore |-> P.everCached]>>]

\* The handler up to its await: 405 for a method other than GET, the cached
\* body while it is fresh, else the upstream request is issued
handlerBegin(P, method) ==
  LET Q == [P EXCEPT !.requests = @ + 1]
  IN IF method # "GET"
     THEN Respond(Q, method, "none", 405, "", "Method not allowed")
     ELSE IF Truthy(Q.cachedBody) /\ Q.now - Q.cacheTime < CACHE_TTL
     THEN Respond(Q, method, "none", 200, "HIT", Q.cachedBody[1])
     ELSE [Q EXCEPT
             !.inFlight = Append(@, Q.now),
             !.issued = Append(@,
                [at |-> Q.now,
                 fresh |-> (Q.lastOk # <<>> /\ Q.now - Q.lastOk[1] < CACHE_TTL),
                 concurrent |-> (Q.inFlight # <<>>)])]

\* The sequence without its k-th entry
Without(seq, k) == SubSeq(seq, 1, k - 1) \o SubSeq(seq, k + 1, Len(seq))

\* The handler after its await as it would be if it passed an upstream
\* failure on (502) when it has nothing cached
handlerResumeBadGateway(P, k, outcome, body) ==
  LET Q == [P EXCEPT !.inFlight = Without(@, k)]
  IN IF outcome = "ok"
     THEN Respond([Q EXCEPT !.cachedBody = <<body>>, !.cacheTime = Q.now,
                            !.lastOk = <<Q.now>>, !.okBodies = @ \cup {body},
                            !.everCached = TRUE],
                  "GET", outcome, 200, "MISS", body)
     ELSE IF Truthy(Q.cachedBody)
     THEN Respond(Q, "GET", outcome, 200, "STALE", Q.cachedBody[1])
     ELSE Respond(Q, "GET", outcome, 502, "", "")

\* The handler after its await, for the k-th request in flight: upstream.ok
\* caches the body and answers MISS; a non-OK status and a raised error (the
\* middleware's 25 s timeout included) answer the cached body as STALE if
\* cachedBody is truthy, else the fallback body
handlerResume(P, k, outcome, body) ==
  LET Q == [P EXCEPT !.inFlight = Without(@, k)]
  IN IF outcome = "ok"
     THEN Respond([Q EXCEPT !.cachedBody = <<body>>, !.cacheTime = Q.now,
                            !.lastOk = <<Q.now>>, !.okBodies = @ \cup {body},
                            !.everCached = TRUE],
                  "GET", outcome, 200, "MISS", body)
     ELSE IF Truthy(Q.cachedBody)
     THEN Respond(Q, "GET", outcome, 200, "STALE", Q.cachedBody[1])
     ELSE Respond(Q, "GET", outcome, 200, "FALLBACK", FALLBACK_BODY)

\* ------------------------------------------------------------- main.ts
\* The start button.  resuming counts the startAudio() calls suspended at
\* `await audioCtx.resume()`; hidden tells whether the button carries the
\* class "hidden"; sliders holds the slider values the last startAudio() read
\* (<<>> before the first).

NewApp == [resuming |-> 0, hidden |-> FALSE, sliders |-> <<>>]

\* startAudio() up to its await
startAudioBegin(A) == [A EXCEPT !.resuming = @ + 1, !.hidden = TRUE]

\* The macro setters startAudio() calls before engine.start, with the slider
\* values sl = <<space, colour, scatter, pulse, volume>>
applySliders(E, sl) ==
  setVolume(setPulse(setScatter(setColour(setSpace(E, sl[1]), sl[2]), sl[3]),
                     sl[4]), sl[5])

\* startAudio() after its await, on the engine: the setters, engine.start,
\* and engine.updateFromData(DEFAULT_OBSERVATION) unless start raised
startAudioEngine(E, sl, r) ==
  LET S == start(applySliders(E, sl), r)
  IN IF S.threw THEN S ELSE updateFromData(S, DEFAULT_OBSERVATION)

\* ------------------------------------------------------ RadioJoveLayer
\* The signal layer.  masterGain, trackGains: <<>> is null / no node yet;
\* masterGain's target in 1/10000, track gain targets in 1/100.  playing: the
\* track elements that are not paused.  walkTimer: 0 is null.  armed: the
\* timeouts the host still holds; timerSeq: the last id the host gave out.
\* rand: the state of the seeded generator, as its two 16-bit halves.
\* walkDelay: the delay of the last walk timeout, in whole seconds.
\* stopped: stop() has run and connect() has not run since.

ALL_TRACKS == <<"chorus", "m74", "jellyfish", "tycho", "m87">>

TrackKeys == {ALL_TRACKS[k] : k \in 1..Len(ALL_TRACKS)}

tracksForObservation(obs) ==
  LET type == toLowerCase(obs.targetType)
  IN IF \/ includes(type, <<"g","a","l","a","x","y">>)
        \/ includes(type, <<"c","l","u","s","t","e","r">>)
        \/ includes(type, <<"q","u","a","s","a","r">>)
     THEN <<"m74", "m87", "chorus", "jellyfish", "tycho">>
     ELSE IF \/ includes(type, <<"n","e","b","u","l","a">>)
             \/ includes(type, <<"s","u","p","e","r","n","o","v","a">>)
             \/ includes(type, <<"r","e","m","n","a","n","t">>)
     THEN <<"jellyfish", "tycho", "chorus", "m74", "m87">>
     ELSE IF \/ includes(type, <<"s","t","a","r">>)
             \/ includes(type, <<"s","t","e","l","l","a","r">>)
     THEN <<"tycho", "chorus", "m74", "m87", "jellyfish">>
     ELSE ALL_TRACKS

Half == 65536

\* seededRand(seed): s = seed | 0, for a seed in 0 .. 2^31 - 1
seededRand(seed) == <<seed \div Half, seed % Half>>

\* s = (Math.imul(1664525, s) + 1013904223) | 0, on the halves of s >>> 0
\* (1664525 = 25 * 2^16 + 26125, 1013904223 = 15470 * 2^16 + 62303)
LcgNext(s) ==
  LET p  == 26125 * s[2]
      lo == (p % Half) + 62303
      hi == (p \div Half) + (lo \div Half) + ((25 * s[2]) % Half)
              + ((26125 * s[1]) % Half) + 15470
  IN <<hi % Half, lo % Half>>

\* Math.floor(((s >>> 0) / 0xffffffff) * n), for n up to 2^14
Scaled(s, n) ==
  LET t  == n * s[2]
      u  == n * s[1] + (t \div Half)
      a  == u \div Half
      bh == u % Half
      bl == t % Half
  IN IF bh = Half - 1 /\ bl + a >= Half - 1 THEN a + 1 ELSE a

\* Math.floor(obs.ra * 100 + (obs.dec + 90) * 10)
WalkSeed(obs) == obs.ra + (obs.dec + 9000) \div 10

NewLayer ==
  [ready |-> FALSE, masterGain |-> <<>>, trackGains |-> <<>>,
   playing |-> {}, level |-> 0, activeTracks |-> ALL_TRACKS,
   currentTrack |-> "chorus", walkTimer |-> 0, rand |-> seededRand(42),
   scanMode |-> FALSE, walkDelay |-> 0, armed |-> {}, timerSeq |-> 0,
   stopped |-> FALSE, calls |-> 0, last |-> "new"]

\* connect(ctx, destination): a new graph, every track gain at 0 and every
\* new element paused
layerConnect(L) ==
  [L EXCEPT !.masterGain = <<0>>,
            !.trackGains = [k \in TrackKeys |-> 0],
            !.playing = {},
            !.ready = TRUE,
            !.stopped = FALSE]

\* The crossfade as it would be if the outgoing track were left at its level
crossfadeToNoFadeOut(L, next) ==
  IF L.masterGain = <<>> THEN L
  ELSE [L EXCEPT
          !.trackGains = [k \in DOMAIN @ |-> IF k = next THEN 100 ELSE @[k]],
          !.currentTrack = next]

\* _crossfadeTo(next): the current track to 0, then next to 1.  A key that
\* names no gain node (undefined) schedules nothing.
crossfadeTo(L, next) ==
  IF L.masterGain = <<>> THEN L
  ELSE [L EXCEPT
          !.trackGains = [k \in DOMAIN @ |->
             IF k = next THEN 100
             ELSE IF k = L.currentTrack THEN 0 ELSE @[k]],
          !.currentTrack = next]

clearWalkTimer(L) ==
  IF L.walkTimer # 0
  THEN [L EXCEPT !.armed = @ \ {L.walkTimer}, !.walkTimer = 0]
  ELSE L

\* The rescheduling as it would be if the pending timeout were not cleared
scheduleNextWalkNoClear(L) ==
  IF L.scanMode THEN L
  ELSE LET s  == LcgNext(L.rand)
           id == L.timerSeq + 1
       IN [L EXCEPT !.rand = s, !.walkDelay = 30 + Scaled(s, 60),
                    !.walkTimer = id, !.timerSeq = id,
                    !.armed = @ \cup {id}]

\* _scheduleNextWalk(): setTimeout(_doWalkStep, (30 + rand() * 60) * 1000)
scheduleNextWalk(L) ==
  IF L.scanMode THEN L
  ELSE LET C  == clearWalkTimer(L)
           s  == LcgNext(C.rand)
           id == C.timerSeq + 1
       IN [C EXCEPT !.rand = s, !.walkDelay = 30 + Scaled(s, 60),
                    !.walkTimer = id, !.timerSeq = id,
                    !.armed = @ \cup {id}]

\* The element of a list at a 0-based index; "undefined" past its end
At(list, idx) == IF idx + 1 \in DOMAIN list THEN list[idx + 1] ELSE "undefined"

\* _doWalkStep()
doWalkStep(L) ==
  IF L.scanMode THEN L
  ELSE LET Other(t) == t # L.currentTrack
           others == SelectSeq(L.activeTracks, Other)
           s == LcgNext(L.rand)
       IN IF Len(others) > 0
          THEN scheduleNextWalk(
                 crossfadeTo([L EXCEPT !.rand = s],
                             At(others, Scaled(s, Len(others)))))
          ELSE scheduleNextWalk(L)

\* The host runs the callback of the armed timeout id
walkTimerFires(L, id) == doWalkStep([L EXCEPT !.armed = @ \ {id}])

layerSetObservation(L, obs) ==
  LET newTracks == tracksForObservation(obs)
      s == LcgNext(seededRand(WalkSeed(obs)))
      nextTrack == At(newTracks, Scaled(s, Len(newTracks)))
      A == [L EXCEPT !.rand = s, !.activeTracks = newTracks]
  IN scheduleNextWalk(IF nextTrack # A.currentTrack
                      THEN crossfadeTo(A, nextTrack) ELSE A)

beginScan(L) == clearWalkTimer([L EXCEPT !.scanMode = TRUE])

\* scanAtCoords(ra, dec), ra in 1/100 degree
scanAtCoords(L, ra, dec) ==
  IF ~L.ready \/ L.masterGain = <<>> \/ ~L.scanMode THEN L
  ELSE LET idx == Min(Len(ALL_TRACKS) - 1,
                      (clamp(ra, 0, 36000) * Len(ALL_TRACKS)) \div 36000)
           nextTrack == ALL_TRACKS[idx + 1]
       IN IF nextTrack = L.currentTrack THEN L ELSE crossfadeTo(L, nextTrack)

endScan(L) ==
  IF ~L.scanMode THEN L ELSE scheduleNextWalk([L EXCEPT !.scanMode = FALSE])

\* _startAll(now); allowed: the host lets the elements play
startAll(L, allowed) ==
  scheduleNextWalk(
    [L EXCEPT !.playing = IF allowed THEN DOMAIN L.trackGains ELSE @,
              !.trackGains = [k \in DOMAIN @ |->
                 IF k = L.currentTrack THEN 100 ELSE @[k]]])

\* setLevel(level), level in 1/100
layerSetLevel(L, level, allowed) ==
  LET V == [L EXCEPT !.level = Clamp01(level)]
  IN IF V.masterGain = <<>> \/ ~V.ready THEN V
     ELSE LET S == IF V.level > 0 /\ V.playing = {}
                   THEN startAll(V, allowed) ELSE V
          IN [S EXCEPT !.masterGain = <<V.level * 55>>]

layerStop(L) ==
  LET C == clearWalkTimer([L EXCEPT !.scanMode = FALSE])
  IN [C EXCEPT !.playing = {},
               !.masterGain = IF @ = <<>> THEN @ ELSE <<0>>,
               !.stopped = TRUE]

\* ------------------------------------------------ GenerativeBackground
\* scene, nextScene, crossfadeStart: <<>> is null / -Infinity.  A scene is
\* told by what it is built from: target type, filter (palette), instrument
\* (style) and coordinates (seed).  bufA, bufB: the scene painted in each
\* buffer (<<>> blank).  shown: what the last render() drew on the canvas,
\* the back buffer's scene with its alpha in 1/10000 when it cross-fades.
\* now: performance.now(), ms.  sceneScale in 1/100, normalizedRA and
\* normalizedDec in 1/10000.

crossfadeDuration == 3000

SceneOf(obs) ==
  [type |-> obs.targetType, filter |-> obs.filter,
   instrument |-> obs.instrument, ra |-> obs.ra, dec |-> obs.dec]

NewBackground ==
  [useB |-> FALSE, scene |-> <<>>, nextScene |-> <<>>,
   crossfadeStart |-> <<>>, sceneScale |-> 100,
   normalizedRA |-> 5000, normalizedDec |-> 5000,
   bufA |-> <<>>, bufB |-> <<>>,
   shown |-> [front |-> <<>>, back |-> <<>>, alpha |-> 0],
   now |-> 0, frames |-> 0, calls |-> 0, last |-> "new"]

\* renderSceneToContext(this.frontCtx(), scene, t)
PaintFront(G, scene) ==
  IF G.useB THEN [G EXCEPT !.bufB = scene] ELSE [G EXCEPT !.bufA = scene]

\* renderSceneToContext(this.backCtx(), scene, t)
PaintBack(G, scene) ==
  IF G.useB THEN [G EXCEPT !.bufA = scene] ELSE [G EXCEPT !.bufB = scene]

frontBuf(G) == IF G.useB THEN G.bufB ELSE G.bufA
backBuf(G)  == IF G.useB THEN G.bufA ELSE G.bufB

bgSetZoom(G, z) == [G EXCEPT !.sceneScale = z]

bgSetAimCoords(G, ra, dec) ==
  [G EXCEPT !.normalizedRA = (ra * 5) \div 18,
            !.normalizedDec = ((dec + 9000) * 5) \div 9]

bgSetObservation(G, obs) ==
  LET N == PaintBack([bgSetAimCoords(G, obs.ra, obs.dec) EXCEPT
                        !.nextScene = <<SceneOf(obs)>>],
                     <<SceneOf(obs)>>)
  IN IF N.scene = <<>>
     THEN [N EXCEPT !.useB = ~@, !.scene = N.nextScene, !.nextScene = <<>>,
                    !.crossfadeStart = <<>>]
     ELSE [N EXCEPT !.crossfadeStart = <<N.now>>]

\* resize(): two new blank buffers, the front one repainted
bgResize(G) ==
  LET R == [G EXCEPT !.bufA = <<>>, !.bufB = <<>>]
  IN IF R.scene # <<>> THEN PaintFront(R, R.scene) ELSE R

\* The swap of render(): inside the branch taken while the fade is on, once
\* fadeFrac has reached 1
RenderSwap(G, inFade, over) ==
  IF inFade /\ over
  THEN [G EXCEPT !.useB = ~@, !.scene = G.nextScene, !.nextScene = <<>>]
  ELSE G

\* render(); elapsed is Infinity when crossfadeStart is -Infinity
bgRender(G) ==
  LET P == IF G.scene # <<>> THEN PaintFront(G, G.scene) ELSE G
      started == P.crossfadeStart # <<>>
      elapsed == IF started THEN P.now - P.crossfadeStart[1] ELSE 0
      inFade == P.nextScene # <<>> /\ started /\ elapsed < crossfadeDuration
      fadeFrac == IF started
                  THEN Min(10000, (elapsed * 10000) \div crossfadeDuration)
                  ELSE 10000
      D == IF inFade
           THEN [P EXCEPT !.shown = [front |-> frontBuf(P),
                                     back |-> backBuf(P), alpha |-> fadeFrac]]
           ELSE IF P.scene # <<>>
           THEN [P EXCEPT !.shown = [front |-> frontBuf(P), back |-> <<>>,
                                     alpha |-> 0]]
           ELSE [P EXCEPT !.shown = [front |-> <<>>, back |-> <<>>,
                                     alpha |-> 0]]
  IN [RenderSwap(D, inFade, fadeFrac >= 10000) EXCEPT !.frames = @ + 1]

\* ---- aim, zoom and autopilot
\* The module-level state of the page.  Timer and frame handles: 0 is null.
\* timeouts: the timeouts the host still holds, each with its kind ("arm",
\* "resume", "return") and, for the bookkeeping of the claims, clean: no aim,
\* wheel or touch interaction and no stopAudio() has happened since the
\* startAudio() that armed it began.  rafs: the animation frames requested
\* and not yet run or cancelled.  touches: the fingers on the canvas.
\* suspended: one clean flag per startAudio() suspended at its await.  aimedObservation: <<>> is null (the observations
\* the page holds are told apart by their content).  status: the status
\* text, visible: the status line carries the class "visible".  zoomLevel,
\* autopilotZoom and pinchStartZoom in 1/100; pinchStartDist: whether a
\* pinch distance is recorded.
\* A handler works on the page as a whole: W.E the engine, W.L the signal
\* layer, W.G the background, W.F the poller, W.P the state above.  The
\* renderer and the overlay are not part of the model.

NewPilot ==
  [aimActive |-> FALSE, returnTimer |-> 0,
   lastLiveStatus |-> <<"LIVE", "JAMES WEBB SPACE TELESCOPE">>,
   lastObservation |-> DefaultData, recentObservations |-> <<DefaultData>>,
   aimedObservation |-> <<>>, autopilotActive |-> FALSE,
   autopilotPaused |-> FALSE, autopilotRaf |-> 0, autopilotResumeTimer |-> 0,
   autopilotZoom |-> 100, autopilotArmTimer |-> 0,
   userInteractedEarly |-> FALSE, zoomLevel |-> 100,
   status |-> <<>>, visible |-> FALSE,
   pinchStartDist |-> FALSE, pinchStartZoom |-> 100,
   timeouts |-> {}, rafs |-> {}, handles |-> 0, touches |-> 0,
   suspended |-> <<>>]

\* Math.pow(clamp(value01, 0, 1), 1.5) * 0.7, in 1/100
mapSignalSlider(value01) ==
  LET c == Clamp01(value01) IN (c * ISqrt(100 * c) * 7) \div 1000

\* setTimeout(callback, delay)
HostSetTimeout(P, kind, clean) ==
  [P EXCEPT !.handles = @ + 1,
            !.timeouts = @ \cup {[id |-> P.handles + 1, kind |-> kind,
                                  clean |-> clean]}]

\* clearTimeout(id)
HostClearTimeout(P, id) == [P EXCEPT !.timeouts = {t \in @ : t.id # id}]

\* requestAnimationFrame(runAutopilotFrame)
HostRequestFrame(P) ==
  [P EXCEPT !.handles = @ + 1, !.rafs = @ \cup {P.handles + 1},
            !.autopilotRaf = P.handles + 1]

\* if (autopilotRaf !== null) cancelAnimationFrame(autopilotRaf)
CancelFrame(P) == [P EXCEPT !.rafs = @ \ {P.autopilotRaf}]

clampZoom(z) == Max(50, Min(300, z))

\* applyZoom(z) of the page: zoomNorm = 1 - (z - 0.5) / 2.5
pageApplyZoom(W, z) ==
  [W EXCEPT !.P.zoomLevel = z,
            !.G = bgSetZoom(@, z),
            !.E = setZoom(@, 100 - ((z - 50) * 2) \div 5)]

\* raDeltaDeg(a, b), in 1/100 degree
raDeltaDeg(a, b) ==
  LET d == (IF a >= b THEN a - b ELSE b - a) % 36000
  IN IF d > 18000 THEN 36000 - d ELSE d

\* The score of nearestObservation, times 180^2 * 10^4
AimScore(obs, ra, dec) ==
  LET dRa  == raDeltaDeg(ra, obs.ra)
      dDec == IF dec >= obs.dec THEN dec - obs.dec ELSE obs.dec - dec
  IN dRa * dRa + dDec * dDec

\* nearestObservation(ra, dec): the first of the lowest score
nearestObservation(recent, ra, dec) ==
  recent[CHOOSE k \in DOMAIN recent :
           \A m \in DOMAIN recent :
             \/ AimScore(recent[k], ra, dec) < AimScore(recent[m], ra, dec)
             \/ /\ AimScore(recent[k], ra, dec) = AimScore(recent[m], ra, dec)
                /\ k <= m]

\* addRecentObservation(obs); the coordinates are compared to 0.001 degree
addRecentObservation(recent, obs) ==
  LET last == recent[Len(recent)]
      sameAsLast == /\ last.targetName = obs.targetName
                    /\ last.instrument = obs.instrument
                    /\ last.filter = obs.filter
                    /\ last.ra = obs.ra
                    /\ last.dec = obs.dec
      pushed == IF sameAsLast THEN recent ELSE Append(recent, obs)
  IN IF Len(pushed) > 64 THEN Tail(pushed) ELSE pushed

\* onAimMove(clientX, clientY), by the sky coordinates of the point; an
\* exception of engine.updateFromCoords ends it
onAimMove(W, ra, dec) ==
  LET obs == nearestObservation(W.P.recentObservations, ra, dec)
      A == IF <<obs>> # W.P.aimedObservation
           THEN [W EXCEPT !.P.aimedObservation = <<obs>>,
                          !.G = bgSetObservation(@, obs)]
           ELSE W
      B == [A EXCEPT !.G = bgSetAimCoords(@, ra, dec),
                     !.E = IF @.isStarted THEN updateFromCoords(@, ra, dec)
                           ELSE @]
  IN IF B.E.threw THEN B
     ELSE [B EXCEPT !.L = scanAtCoords(@, ra, dec),
                    !.P.status = <<"AIM", ra, dec>>]

markEarlyInteraction(P) ==
  IF P.userInteractedEarly THEN P
  ELSE LET M == [P EXCEPT !.userInteractedEarly = TRUE]
       IN IF M.autopilotArmTimer # 0
          THEN [HostClearTimeout(M, M.autopilotArmTimer) EXCEPT
                  !.autopilotArmTimer = 0]
          ELSE M

pauseAutopilotForInteraction(P) ==
  IF ~P.autopilotActive \/ P.autopilotPaused THEN P
  ELSE LET Q == [P EXCEPT !.autopilotPaused = TRUE]
       IN IF Q.autopilotRaf # 0
          THEN [CancelFrame(Q) EXCEPT !.autopilotRaf = 0]
          ELSE Q

scheduleAutopilotResume(P) ==
  IF ~P.autopilotActive THEN P
  ELSE LET C == IF P.autopilotResumeTimer # 0
                THEN HostClearTimeout(P, P.autopilotResumeTimer) ELSE P
       IN [HostSetTimeout(C, "resume", FALSE) EXCEPT
             !.autopilotResumeTimer = C.handles + 1]

startAutopilot(W) ==
  IF W.P.autopilotActive THEN W
  ELSE [W EXCEPT
          !.L = beginScan(@),
          !.P = HostRequestFrame(
                  IF @.autopilotRaf # 0 THEN CancelFrame(@) ELSE @),
          !.P.autopilotActive = TRUE,
          !.P.autopilotPaused = FALSE,
          !.P.autopilotZoom = W.P.zoomLevel]

resumeAutopilot(W) ==
  IF ~W.P.autopilotActive \/ ~W.P.autopilotPaused \/ W.P.aimActive THEN W
  ELSE [W EXCEPT
          !.L = beginScan(@),
          !.P = HostRequestFrame(
                  IF @.autopilotRaf # 0 THEN CancelFrame(@) ELSE @),
          !.P.autopilotPaused = FALSE,
          !.P.autopilotZoom = W.P.zoomLevel]

stopAutopilot(W) ==
  LET P0 == W.P
      P1 == IF P0.autopilotRaf # 0
            THEN [CancelFrame(P0) EXCEPT !.autopilotRaf = 0] ELSE P0
      P2 == IF P1.autopilotResumeTimer # 0
            THEN [HostClearTimeout(P1, P1.autopilotResumeTimer) EXCEPT
                    !.autopilotResumeTimer = 0]
            ELSE P1
      P3 == [P2 EXCEPT !.autopilotActive = FALSE, !.autopilotPaused = FALSE]
      L1 == layerSetObservation(endScan(W.L), P3.lastObservation)
  IN IF ~P3.aimActive
     THEN [W EXCEPT !.L = L1,
                    !.G = bgSetObservation(@, P3.lastObservation),
                    !.P = [P3 EXCEPT !.status = P3.lastLiveStatus]]
     ELSE [W EXCEPT !.L = L1, !.P = P3]

\* runAutopilotFrame(timeMs): the point and the zoom it steers to are
\* functions of the time; an exception of the engine ends it before the next
\* frame is requested
runAutopilotFrame(W, ra, dec, targetZoom) ==
  IF ~W.P.autopilotActive \/ W.P.autopilotPaused THEN W
  ELSE LET A == onAimMove(W, ra, dec)
           z == A.P.autopilotZoom
                  + ((clampZoom(targetZoom) - A.P.autopilotZoom) * 45) \div 1000
           B == pageApplyZoom([A EXCEPT !.P.autopilotZoom = z], z)
       IN IF A.E.threw THEN A
          ELSE IF B.E.threw THEN B
          ELSE [B EXCEPT !.P = HostRequestFrame(@)]

onAimStart(W, ra, dec) ==
  LET P1 == IF W.P.returnTimer # 0
            THEN [HostClearTimeout(W.P, W.P.returnTimer) EXCEPT
                    !.returnTimer = 0]
            ELSE W.P
      P2 == pauseAutopilotForInteraction(markEarlyInteraction(P1))
  IN onAimMove([W EXCEPT !.L = beginScan(@),
                         !.P = [P2 EXCEPT !.aimActive = TRUE,
                                          !.aimedObservation = <<>>]],
               ra, dec)

onAimEnd(W) ==
  [W EXCEPT !.P = [HostSetTimeout([@ EXCEPT !.aimActive = FALSE],
                                  "return", FALSE) EXCEPT
                     !.returnTimer = W.P.handles + 1]]

\* The callback of the return timer; an exception of engine.updateFromData
\* ends it
returnTimerFires(W) ==
  IF W.P.autopilotActive
  THEN [resumeAutopilot([W EXCEPT !.P.aimActive = FALSE]) EXCEPT
          !.P.returnTimer = 0]
  ELSE LET A == [W EXCEPT !.P.status = W.P.lastLiveStatus,
                          !.E = updateFromData(@, W.P.lastObservation)]
       IN IF A.E.threw THEN A
          ELSE [A EXCEPT
                  !.G = bgSetObservation(@, W.P.lastObservation),
                  !.L = layerSetObservation(endScan(@), W.P.lastObservation),
                  !.P.aimedObservation = <<>>,
                  !.P.returnTimer = 0]

\* The callback of the resume timer
resumeTimerFires(W) ==
  [resumeAutopilot(W) EXCEPT !.P.autopilotResumeTimer = 0]

\* The callback of the arm timer
armTimerFires(W) ==
  LET A == [W EXCEPT !.P.autopilotArmTimer = 0]
  IN IF ~A.P.userInteractedEarly /\ ~A.P.autopilotActive /\ A.E.isStarted
     THEN startAutopilot(A) ELSE A

\* The callback startAudio() hands to fetcher.start; an exception of
\* engine.updateFromData ends it
observationCallback(W, data) ==
  LET A == [W EXCEPT
              !.P.lastObservation = data,
              !.P.recentObservations = addRecentObservation(@, data),
              !.P.lastLiveStatus = <<"LIVE", data.targetName, data.instrument>>]
  IN IF ~A.P.aimActive /\ ~A.P.autopilotActive
     THEN LET B == [A EXCEPT !.E = updateFromData(@, data)]
          IN IF B.E.threw THEN B
             ELSE [B EXCEPT !.G = bgSetObservation(@, data),
                            !.L = layerSetObservation(@, data),
                            !.P.status = A.P.lastLiveStatus]
     ELSE A

\* startAudio() up to its await, on the page state
startAudioReset(P) ==
  LET R == [P EXCEPT !.userInteractedEarly = FALSE,
                     !.suspended = Append(@, TRUE)]
  IN IF R.autopilotArmTimer # 0
     THEN [HostClearTimeout(R, R.autopilotArmTimer) EXCEPT
             !.autopilotArmTimer = 0]
     ELSE R

\* startAudio() after its await, for the k-th of the suspended calls: the
\* engine's part, then the signal layer, the default data, the poller, the
\* status line and the arm timer.  An exception of the engine ends it.
startAudioResumed(W, k, sl, signal, r) ==
  LET P0 == [W.P EXCEPT !.suspended = Without(@, k)]
      S == start(applySliders(W.E, sl), r)
      L1 == layerSetObservation(
              layerSetLevel(layerConnect(W.L), mapSignalSlider(signal), TRUE),
              DEFAULT_OBSERVATION)
      D == updateFromData(S, DEFAULT_OBSERVATION)
  IN IF S.threw THEN [W EXCEPT !.E = S, !.P = P0]
     ELSE IF D.threw THEN [W EXCEPT !.E = D, !.L = L1, !.P = P0]
     ELSE [W EXCEPT
             !.E = D, !.L = L1, !.F = fetcherStart(@),
             !.P = [HostSetTimeout([P0 EXCEPT !.visible = TRUE], "arm",
                                   W.P.suspended[k]) EXCEPT
                      !.autopilotArmTimer = P0.handles + 1]]

\* stopAudio()
stopAudio(W) ==
  LET P1 == IF W.P.autopilotArmTimer # 0
            THEN [HostClearTimeout(W.P, W.P.autopilotArmTimer) EXCEPT
                    !.autopilotArmTimer = 0]
            ELSE W.P
      A == stopAutopilot([W EXCEPT !.P = P1])
  IN [A EXCEPT !.E = stop(@), !.L = layerStop(@), !.F = fetcherStop(@),
               !.P.visible = FALSE]

\* The pointermove listener of the canvas, away from a secondary touch
onPointerMove(W, ra, dec) ==
  IF W.P.aimActive THEN onAimMove(W, ra, dec)
  ELSE IF W.P.visible THEN [W EXCEPT !.P.status = <<"HOVER", ra, dec>>]
  ELSE W

\* The pointerleave listener
onPointerLeave(W) ==
  IF ~W.P.aimActive /\ W.P.visible
  THEN [W EXCEPT !.P.status = W.P.lastLiveStatus] ELSE W

\* The wheel listener, by the pixels scrolled
onWheel(W, deltaPixels) ==
  LET P1 == scheduleAutopilotResume(
              pauseAutopilotForInteraction(markEarlyInteraction(W.P)))
  IN pageApplyZoom([W EXCEPT !.P = P1],
                   clampZoom((P1.zoomLevel * (1000 - deltaPixels)) \div 1000))

\* The touchstart listener, by the number of touches
onTouchStart(W, touches) ==
  LET P1 == scheduleAutopilotResume(
              pauseAutopilotForInteraction(markEarlyInteraction(W.P)))
  IN [W EXCEPT !.P = IF touches = 2
                     THEN [P1 EXCEPT !.pinchStartDist = TRUE,
                                     !.pinchStartZoom = P1.zoomLevel]
                     ELSE P1]

\* The touchmove listener, by the number of touches and the distance of the
\* two as a fraction (1/100) of the distance recorded
onTouchMove(W, touches, ratio) ==
  IF touches = 2 /\ W.P.pinchStartDist
  THEN pageApplyZoom(W, clampZoom((W.P.pinchStartZoom * ratio) \div 100))
  ELSE W

\* The touchend listener
onTouchEnd(W) ==
  [W EXCEPT !.P = scheduleAutopilotResume(
                    [@ EXCEPT !.pinchStartDist = FALSE])]

\* The click listener of the AUTO button
onAutopilotClick(W) ==
  IF W.P.autopilotActive THEN stopAutopilot(W) ELSE startAutopilot(W)

\* JWSTFetcher.fetch() with the callback of the page: the callback raises
\* when engine.updateFromData does, and is then invoked once more with the
\* default
pagePoll(W, resp) ==
  LET now == W.F.clock + 1
      R == fetchFromMAST(resp, now)
      tried == IF R.raised \/ ~W.F.callback THEN <<>> ELSE R.data
      A == IF tried # <<>> THEN observationCallback(W, tried[1]) ELSE W
      r1 == tried # <<>> /\ A.E.threw
      again == (R.raised \/ r1) /\ W.F.callback
      B == IF again
           THEN observationCallback([A EXCEPT !.E.threw = FALSE],
                                    FreshDefault(now))
           ELSE A
      r2 == again /\ B.E.threw
  IN [B EXCEPT !.F = fetch(W.F, resp,
                           IF tried = <<>> THEN <<r2, FALSE>> ELSE <<r1, r2>>)]


\* ------------------------------------------------------------------ state

\* The engine's fields (ctx: this.ctx is set; lfo, evolveTimer: 0 is null;
\* cutoffOverride: <<>> is null), the targets last scheduled on its audio
\* parameters, the host's oscillators (nodes) and armed intervals (timers),
\* and what the last operation did: threw (it raised), fbWritten (the grain
\* feedback targets it scheduled), gainWriters (the functions that have
\* scheduled a voice gain), ticks (tick bodies run), timeline (the latest
\* event of each parameter a linear ramp is ever scheduled on), lastOp, ops.
\* For the mapper on its own: the snapshot last handed to mapObservation and
\* what it returned (<<>> before the first call).  For the poller: its fields
\* and the host's armed intervals, the polls in flight and what the last
\* completed poll handed to the callback.  For the proxy: its module-level
\* cache, the clock, the requests awaiting upstream and the last response.
\* For the page: the start button.
VARIABLES
  ctx, voices, grainLines, grainInputGain, grainOutputGain, filterFreq,
  filterQ, reverbGain, dryGain, masterGain, masterRampMs, lfo, lfoFreq,
  lfoGain, blend, cutoffOverride, isStarted, zoomNorm, voiceDensity,
  rootSemitones, chordMode, unfoldAmount, evolveTimer, pulseAmount, nodes,
  timers, timerSeq, session, ticks, gainWriters, fbWritten, threw, timeline,
  lastOp, ops, snapshot, mapped, fetcher, proxy, app, signalLayer, generativeBg, pilot

engine ==
  <<ctx, voices, grainLines, grainInputGain, grainOutputGain, filterFreq,
    filterQ, reverbGain, dryGain, masterGain, masterRampMs, lfo, lfoFreq,
    lfoGain, blend, cutoffOverride, isStarted, zoomNorm, voiceDensity,
    rootSemitones, chordMode, unfoldAmount, evolveTimer, pulseAmount,
    nodes, timers, timerSeq, session, ticks, gainWriters, fbWritten, threw,
    timeline>>

\* The collaborators of the engine
collaborators == <<fetcher, proxy, app, signalLayer, generativeBg, pilot>>

vars == <<engine, lastOp, ops, snapshot, mapped, collaborators>>

\* The engine as one record, as the handlers above take it
Eng ==
  [ctx |-> ctx, voices |-> voices, grainLines |-> grainLines,
   grainInputGain |-> grainInputGain, grainOutputGain |-> grainOutputGain,
   filterFreq |-> filterFreq, filterQ |-> filterQ, reverbGain |->
   reverbGain, dryGain |-> dryGain, masterGain |-> masterGain,
   masterRampMs |-> masterRampMs, lfo |-> lfo, lfoFreq |-> lfoFreq,
   lfoGain |-> lfoGain, blend |-> blend, cutoffOverride |->
   cutoffOverride, isStarted |-> isStarted, zoomNorm |-> zoomNorm,
   voiceDensity |-> voiceDensity, rootSemitones |-> rootSemitones,
   chordMode |-> chordMode, unfoldAmount |-> unfoldAmount, evolveTimer |->
   evolveTimer, pulseAmount |-> pulseAmount, nodes |-> nodes, timers |->
   timers, timerSeq |-> timerSeq, session |-> session, ticks |-> ticks,
   gainWriters |-> gainWriters, fbWritten |-> fbWritten, threw |-> threw,
   timeline |-> timeline]

Commit(E) ==
  /\ ctx' = E.ctx
  /\ voices' = E.voices
  /\ grainLines' = E.grainLines
  /\ grainInputGain' = E.grainInputGain
  /\ grainOutputGain' = E.grainOutputGain
  /\ filterFreq' = E.filterFreq
  /\ filterQ' = E.filterQ
  /\ reverbGain' = E.reverbGain
  /\ dryGain' = E.dryGain
  /\ masterGain' = E.masterGain
  /\ masterRampMs' = E.masterRampMs
  /\ lfo' = E.lfo
  /\ lfoFreq' = E.lfoFreq
  /\ lfoGain' = E.lfoGain
  /\ blend' = E.blend
  /\ cutoffOverride' = E.cutoffOverride
  /\ isStarted' = E.isStarted
  /\ zoomNorm' = E.zoomNorm
  /\ voiceDensity' = E.voiceDensity
  /\ rootSemitones' = E.rootSemitones
  /\ chordMode' = E.chordMode
  /\ unfoldAmount' = E.unfoldAmount
  /\ evolveTimer' = E.evolveTimer
  /\ pulseAmount' = E.pulseAmount
  /\ nodes' = E.nodes
  /\ timers' = E.timers
  /\ timerSeq' = E.timerSeq
  /\ session' = E.session
  /\ ticks' = E.ticks
  /\ gainWriters' = E.gainWriters
  /\ fbWritten' = E.fbWritten
  /\ threw' = E.threw
  /\ timeline' = E.timeline

\* Every operation starts with nothing raised and nothing written
Begin == [Eng EXCEPT !.threw = FALSE, !.fbWritten = {}]

Done(E, op, a, b) ==
  /\ ops < MaxOps
  /\ Commit(E)
  /\ lastOp' = [op |-> op, a |-> a, b |-> b]
  /\ ops' = ops + 1
  /\ UNCHANGED <<snapshot, mapped, collaborators>>

\* ----------------------------------------------------------------- inputs

\* Macro slider values, in 1/100: in range, and out of range on both sides
MacroInputs == {-50, 50, 150}
\* Macro values within [0,1], its maximum included
NominalMacroInputs == {0, 50, 100}

\* Snapshots handed to updateFromData
Observations ==
  <<DEFAULT_OBSERVATION,
    [ra |-> 27000, dec |-> 3000,
     instrument |-> <<"M","I","R","I">>,
     filter     |-> <<"F","1","8","0","0","W">>,
     targetType |-> <<"S","t","a","r">>],
    [ra |-> 0, dec |-> 9000,
     instrument |-> <<"X","Y","Z","-","9">>,
     filter     |-> <<"U","n","k","n","o","w","n">>,
     targetType |-> <<"u","n","k","n","o","w","n">>]>>

\* Snapshots handed to mapObservation on its own: well-formed ones, and ones
\* with a non-numeric coordinate or an empty string
Snapshots ==
  [ra         : {NaN, 0, 11084, 36000},
   dec        : {NaN, -9000, -7345, 9000},
   instrument : {<<>>, <<"N","I","R","C","a","m">>, <<"X","Y","Z","-","9">>},
   filter     : {<<>>, <<"F","2","7","7","W">>, <<"F","0","W">>},
   targetType : {<<>>, <<"g","a","l","a","x","y"," ","c","l","u","s","t","e","r">>,
                 <<"S","t","a","r">>}]

\* Aim coordinates, in 1/100 degree: in range, and out of range
CoordInputs == {<<18000, 0>>, <<39600, 9900>>}
NominalCoordInputs == {<<18000, 0>>, <<35900, 9000>>}

ChordInputs == {<<0, "MIN">>, <<5, "XYZ">>}

\* ---------------------------------------------------------------- actions

Init ==
  /\ ctx = NewEngine.ctx
  /\ voices = NewEngine.voices
  /\ grainLines = NewEngine.grainLines
  /\ grainInputGain = NewEngine.grainInputGain
  /\ grainOutputGain = NewEngine.grainOutputGain
  /\ filterFreq = NewEngine.filterFreq
  /\ filterQ = NewEngine.filterQ
  /\ reverbGain = NewEngine.reverbGain
  /\ dryGain = NewEngine.dryGain
  /\ masterGain = NewEngine.masterGain
  /\ masterRampMs = NewEngine.masterRampMs
  /\ lfo = NewEngine.lfo
  /\ lfoFreq = NewEngine.lfoFreq
  /\ lfoGain = NewEngine.lfoGain
  /\ blend = NewEngine.blend
  /\ cutoffOverride = NewEngine.cutoffOverride
  /\ isStarted = NewEngine.isStarted
  /\ zoomNorm = NewEngine.zoomNorm
  /\ voiceDensity = NewEngine.voiceDensity
  /\ rootSemitones = NewEngine.rootSemitones
  /\ chordMode = NewEngine.chordMode
  /\ unfoldAmount = NewEngine.unfoldAmount
  /\ evolveTimer = NewEngine.evolveTimer
  /\ pulseAmount = NewEngine.pulseAmount
  /\ nodes = NewEngine.nodes
  /\ timers = NewEngine.timers
  /\ timerSeq = NewEngine.timerSeq
  /\ session = NewEngine.session
  /\ ticks = NewEngine.ticks
  /\ gainWriters = NewEngine.gainWriters
  /\ fbWritten = NewEngine.fbWritten
  /\ threw = NewEngine.threw
  /\ timeline = NewEngine.timeline
  /\ lastOp = [op |-> "new", a |-> 0, b |-> 0]
  /\ ops = 0
  /\ snapshot = <<>>
  /\ mapped = <<>>
  /\ fetcher = NewFetcher
  /\ proxy = NewProxy("vercel")
  /\ app = NewApp
  /\ signalLayer = NewLayer
  /\ generativeBg = bgSetObservation(NewBackground, DEFAULT_OBSERVATION)
  /\ pilot = NewPilot

\* start(ctx), on an engine that is not running (the documented precondition)
Start ==
  /\ ~isStarted
  /\ \E r \in DOMAIN RandStreams : Done(start(Begin, r), "start", r, 0)

\* start(ctx) on an engine that is already running
StartRunning ==
  /\ isStarted
  /\ \E r \in DOMAIN RandStreams : Done(start(Begin, r), "start", r, 1)

Stop == Done(stop(Begin), "stop", 0, 0)

UpdateFromData ==
  \E k \in DOMAIN Observations :
    Done(updateFromData(Begin, Observations[k]), "updateFromData", k, 0)

UpdateFromCoords(C) ==
  \E c \in C : Done(updateFromCoords(Begin, c[1], c[2]), "updateFromCoords",
                    c[1], c[2])

SetVolume(M)  == \E v \in M : Done(setVolume(Begin, v), "setVolume", v, 0)
SetSpace(M)   == \E v \in M : Done(setSpace(Begin, v), "setSpace", v, 0)
SetColour(M)  == \E v \in M : Done(setColour(Begin, v), "setColour", v, 0)
SetScatter(M) == \E v \in M : Done(setScatter(Begin, v), "setScatter", v, 0)
SetPulse(M)   == \E v \in M : Done(setPulse(Begin, v), "setPulse", v, 0)
SetZoom(M)    == \E v \in M : Done(setZoom(Begin, v), "setZoom", v, 0)

SetChord ==
  \E c \in ChordInputs : Done(setChord(Begin, c[1], c[2]), "setChord", c[1], 0)

\* An armed interval fires and runs the evolution callback
Tick ==
  /\ timers # {}
  /\ \E r \in DOMAIN RandStreams : Done(evolve(Begin, r), "tick", r, 0)

\* The longest time that passes between two operations: the evolution period
ElapseMs == 5000

Pending ==
  {timeline.masterGain.left, timeline.filterFreq.left,
   timeline.reverbGain.left, timeline.dryGain.left, timeline.lfoFreq.left}
    \cup {timeline.grainOutput[j].left : j \in 1..Len(timeline.grainOutput)}

\* Time passes while a ramp is in flight; no operation runs.
Elapse ==
  /\ Pending \ {0} # {}
  /\ timeline' =
       [masterGain |-> Later(timeline.masterGain, ElapseMs),
        filterFreq |-> Later(timeline.filterFreq, ElapseMs),
        reverbGain |-> Later(timeline.reverbGain, ElapseMs),
        dryGain    |-> Later(timeline.dryGain, ElapseMs),
        lfoFreq    |-> Later(timeline.lfoFreq, ElapseMs),
        grainOutput |-> [j \in 1..Len(timeline.grainOutput) |->
                           Later(timeline.grainOutput[j], ElapseMs)]]
  /\ UNCHANGED <<ctx, voices, grainLines, grainInputGain, grainOutputGain,
                 filterFreq, filterQ, reverbGain, dryGain, masterGain,
                 masterRampMs, lfo, lfoFreq, lfoGain, blend, cutoffOverride,
                 isStarted, zoomNorm, voiceDensity, rootSemitones, chordMode,
                 unfoldAmount, evolveTimer, pulseAmount, nodes, timers,
                 timerSeq, session, ticks, gainWriters, fbWritten, threw,
                 lastOp, ops, snapshot, mapped, collaborators>>

Step(M, C) ==
  \/ Start
  \/ Stop
  \/ UpdateFromData
  \/ UpdateFromCoords(C)
  \/ SetVolume(M)
  \/ SetSpace(M)
  \/ SetColour(M)
  \/ SetScatter(M)
  \/ SetPulse(M)
  \/ SetZoom(M)
  \/ SetChord
  \/ Tick

Next == Step(MacroInputs, CoordInputs)

\* Any caller, any input
Spec == Init /\ [][Next]_vars

\* Callers that keep every input within its nominal range
NextNominal == Step(NominalMacroInputs, NominalCoordInputs)
SpecNominal == Init /\ [][NextNominal]_vars

\* Callers that also call start() on a running engine
NextReentrant == Next \/ StartRunning
SpecReentrant == Init /\ [][NextReentrant]_vars

\* A caller maps a snapshot
MapObservation ==
  /\ \E obs \in Snapshots :
       /\ snapshot' = <<obs>>
       /\ mapped' = <<mapObservation(obs)>>
  /\ UNCHANGED <<engine, lastOp, ops, collaborators>>

\* The mapper on its own
NextMapper == MapObservation
SpecMapper == Init /\ [][NextMapper]_vars

\* Any caller, any input, with time passing between operations so that the
\* ramps in flight come to their end
NextTimed == Next \/ Elapse
SpecTimed == Init /\ [][NextTimed]_vars

\* ---- the poller on its own

\* Polls begun in one run
MaxPolls == 3

SciRow ==
  [targprop |-> "NGC 3324", exp_type |-> <<"N","R","C","_","I","M","A","G","E">>,
   targ_ra |-> 15975, targ_dec |-> -5862,
   instrume |-> <<"N","I","R","C","A","M">>,
   opticalElements |-> <<"F","0","9","0","W">>,
   targtype |-> <<"N","e","b","u","l","a">>]

DarkRow ==
  [targprop |-> "UNKNOWN", exp_type |-> <<"N","R","C","_","D","A","R","K">>,
   targ_ra |-> 0, targ_dec |-> 0,
   instrume |-> <<"N","I","R","C","A","M">>,
   opticalElements |-> <<"F","2","0","0","W">>,
   targtype |-> <<>>]

\* What a request to /api/jwst can come to
Responses ==
  {[kind |-> "error", results |-> <<>>], [kind |-> "timeout", results |-> <<>>],
   [kind |-> "status", results |-> <<>>], [kind |-> "badjson", results |-> <<>>],
   [kind |-> "json", results |-> <<>>],
   [kind |-> "json", results |-> <<SciRow>>],
   [kind |-> "json", results |-> <<DarkRow, SciRow>>],
   [kind |-> "json", results |-> <<DarkRow>>]}

\* What the registered callback does at its first and second invocation of a
\* poll: it returns, or it raises (main.ts's callback calls
\* engine.updateFromData, which raises on a restarted engine)
ConsumerRaises == {<<FALSE, FALSE>>, <<TRUE, FALSE>>, <<TRUE, TRUE>>}

FetcherStart ==
  /\ fetcher.begun < MaxPolls
  /\ fetcher' = fetcherStart(fetcher)
  /\ UNCHANGED <<engine, lastOp, ops, snapshot, mapped, pilot, generativeBg, signalLayer, proxy, app>>

FetcherStop ==
  /\ fetcher.intervalId # 0
  /\ fetcher' = fetcherStop(fetcher)
  /\ UNCHANGED <<engine, lastOp, ops, snapshot, mapped, pilot, generativeBg, signalLayer, proxy, app>>

\* An armed interval fires: setInterval(() => this.fetch(), POLL_INTERVAL_MS)
IntervalFires ==
  /\ fetcher.intervals # {}
  /\ fetcher.begun < MaxPolls
  /\ fetcher' = [fetcher EXCEPT !.inFlight = @ + 1, !.begun = @ + 1]
  /\ UNCHANGED <<engine, lastOp, ops, snapshot, mapped, pilot, generativeBg, signalLayer, proxy, app>>

\* The request of a poll in flight comes to its end and fetch() runs on
PollEnds ==
  /\ fetcher.inFlight > 0
  /\ \E resp \in Responses, raises \in ConsumerRaises :
       fetcher' = fetch(fetcher, resp, raises)
  /\ UNCHANGED <<engine, lastOp, ops, snapshot, mapped, pilot, generativeBg, signalLayer, proxy, app>>

NextFetcher == FetcherStart \/ FetcherStop \/ IntervalFires \/ PollEnds
SpecFetcher == Init /\ [][NextFetcher]_vars

\* ---- the proxy on its own

\* Requests handled and clock advances in one run
MaxRequests == 3
MaxAdvances == 2

Methods == {"GET", "POST"}
\* Upstream bodies: two snapshots, and an empty body
Bodies == {"", "A", "B"}
\* The poll interval, and the cache lifetime
Advances == {60000, CACHE_TTL}

Request ==
  /\ proxy.requests < MaxRequests
  /\ \E method \in Methods : proxy' = handlerBegin(proxy, method)
  /\ UNCHANGED <<engine, lastOp, ops, snapshot, mapped, pilot, generativeBg, signalLayer, fetcher, app>>

\* An upstream request comes to its end.  Only the middleware gives its
\* request a timeout.
UpstreamEnds ==
  /\ \E k \in 1..Len(proxy.inFlight),
        outcome \in {"ok", "status", "error", "timeout"}, body \in Bodies :
       /\ outcome = "timeout" => proxy.variant = "vite"
       /\ outcome # "ok" => body = ""
       /\ proxy' = handlerResume(proxy, k, outcome, body)
  /\ UNCHANGED <<engine, lastOp, ops, snapshot, mapped, pilot, generativeBg, signalLayer, fetcher, app>>

TimePasses ==
  /\ proxy.advances < MaxAdvances
  /\ \E d \in Advances :
       proxy' = [proxy EXCEPT !.now = @ + d, !.advances = @ + 1]
  /\ UNCHANGED <<engine, lastOp, ops, snapshot, mapped, pilot, generativeBg, signalLayer, fetcher, app>>

\* The dev server is the one running instead of the serverless function
ServeDev ==
  /\ proxy = NewProxy("vercel")
  /\ proxy' = NewProxy("vite")
  /\ UNCHANGED <<engine, lastOp, ops, snapshot, mapped, pilot, generativeBg, signalLayer, fetcher, app>>

NextProxy == ServeDev \/ Request \/ UpstreamEnds \/ TimePasses
SpecProxy == Init /\ [][NextProxy]_vars

\* ---- the signal layer on its own

\* Calls made on the layer, timer callbacks included, in one run
MaxCalls == 5

\* Signal levels, in 1/100
LevelInputs == {0, 50}

LayerDone(L, op) ==
  /\ signalLayer.calls < MaxCalls
  /\ signalLayer' = [L EXCEPT !.calls = @ + 1, !.last = op]
  /\ UNCHANGED <<engine, lastOp, ops, snapshot, mapped, pilot, generativeBg, fetcher, proxy, app>>

LayerConnect == LayerDone(layerConnect(signalLayer), "connect")

LayerSetObservation ==
  \E k \in DOMAIN Observations :
    LayerDone(layerSetObservation(signalLayer, Observations[k]),
              "setObservation")

LayerSetLevel ==
  \E level \in LevelInputs, allowed \in BOOLEAN :
    LayerDone(layerSetLevel(signalLayer, level, allowed), "setLevel")

LayerBeginScan == LayerDone(beginScan(signalLayer), "beginScan")

LayerScanAtCoords ==
  \E c \in CoordInputs :
    LayerDone(scanAtCoords(signalLayer, c[1], c[2]), "scanAtCoords")

LayerEndScan == LayerDone(endScan(signalLayer), "endScan")

LayerStop == LayerDone(layerStop(signalLayer), "stop")

\* A timeout the host holds comes due
WalkTimerFires ==
  \E id \in signalLayer.armed :
    LayerDone(walkTimerFires(signalLayer, id), "walk")

NextSignal ==
  \/ LayerConnect
  \/ LayerSetObservation
  \/ LayerSetLevel
  \/ LayerBeginScan
  \/ LayerScanAtCoords
  \/ LayerEndScan
  \/ LayerStop
  \/ WalkTimerFires

SpecSignal == Init /\ [][NextSignal]_vars

\* ---- the background on its own

\* Calls made on the background, frames included, in one run
MaxFrames == 5

\* Time between two events, ms
FrameGaps == {1000, crossfadeDuration}

\* Zoom levels, in 1/100
ZoomLevels == {50, 300}

BgDone(G, op) ==
  /\ generativeBg.calls < MaxFrames
  /\ generativeBg' = [G EXCEPT !.calls = @ + 1, !.last = op]
  /\ UNCHANGED <<engine, lastOp, ops, snapshot, mapped, pilot, fetcher, proxy, app,
                 signalLayer>>

BgSetObservation ==
  \E k \in DOMAIN Observations :
    BgDone(bgSetObservation(generativeBg, Observations[k]), "setObservation")

BgSetAimCoords ==
  \E c \in NominalCoordInputs :
    BgDone(bgSetAimCoords(generativeBg, c[1], c[2]), "setAimCoords")

BgSetZoom == \E z \in ZoomLevels : BgDone(bgSetZoom(generativeBg, z), "setZoom")

BgResize == BgDone(bgResize(generativeBg), "resize")

\* The animation frame of start()'s loop
BgRender == BgDone(bgRender(generativeBg), "render")

BgTimePasses ==
  \E d \in FrameGaps :
    BgDone([generativeBg EXCEPT !.now = @ + d], "time")

NextBackground ==
  \/ BgSetObservation
  \/ BgSetAimCoords
  \/ BgSetZoom
  \/ BgResize
  \/ BgRender
  \/ BgTimePasses

SpecBackground == Init /\ [][NextBackground]_vars

\* ---- the page: aim, zoom, autopilot, start button, engine, layer, poller

\* The page as the handlers take it
World ==
  [E |-> Begin, L |-> signalLayer, G |-> generativeBg, F |-> fetcher,
   P |-> pilot]

\* An aim, wheel or touch interaction, or a stopAudio(), happens
Dirty(P) ==
  [P EXCEPT !.timeouts = {[t EXCEPT !.clean = FALSE] : t \in @},
            !.suspended = [k \in DOMAIN @ |-> FALSE]]


\* The page at the moment the user touches the canvas
Interacted == [World EXCEPT !.P = Dirty(@)]

PageDone(W, op, a, b) ==
  /\ ops < MaxOps
  /\ Commit(W.E)
  /\ lastOp' = [op |-> op, a |-> a, b |-> b]
  /\ ops' = ops + 1
  /\ signalLayer' = W.L
  /\ generativeBg' = W.G
  /\ fetcher' = W.F
  /\ pilot' = W.P
  /\ UNCHANGED <<snapshot, mapped, proxy, app>>

\* Where the pointer is, as sky coordinates in 1/100 degree
AimPoints == {<<18000, 0>>}

\* Where a frame of autopilot steers to: <<ra, dec, targetZoom>>
FramePoints == {<<9000, 4500, 155>>}

\* Pixels scrolled by one wheel event
WheelDeltas == {100}

\* Fingers the canvas follows at once
MaxTouches == 2

\* The distance of a pinch as a fraction (1/100) of its first distance
PinchRatios == {150}

\* What a poll of the page comes to
PageResponses ==
  {[kind |-> "json", results |-> <<SciRow>>],
   [kind |-> "error", results |-> <<>>]}

\* pointerdown on the canvas, away from a secondary touch
PointerDown ==
  \E p \in AimPoints :
    PageDone(onAimStart(Interacted, p[1], p[2]), "pointerdown", p[1], p[2])

\* pointermove: it is part of an aim while the pointer is down
PointerMove ==
  \E p \in AimPoints :
    PageDone(onPointerMove(IF pilot.aimActive THEN Interacted ELSE World,
                           p[1], p[2]),
             "pointermove", p[1], p[2])

\* pointerup and pointercancel
PointerUp ==
  /\ pilot.aimActive
  /\ PageDone(onAimEnd(World), "pointerup", 0, 0)

PointerLeave ==
  /\ ~pilot.aimActive
  /\ pilot.visible
  /\ PageDone(onPointerLeave(World), "pointerleave", 0, 0)

Wheel ==
  \E d \in WheelDeltas : PageDone(onWheel(Interacted, d), "wheel", d, 0)

\* A finger comes down on the canvas: e.touches counts it
TouchStart ==
  /\ pilot.touches < MaxTouches
  /\ PageDone(onTouchStart([Interacted EXCEPT !.P.touches = @ + 1],
                           pilot.touches + 1),
              "touchstart", pilot.touches + 1, 0)

\* A finger on the canvas moves
TouchMove ==
  /\ pilot.touches > 0
  /\ \E ratio \in PinchRatios :
       PageDone(onTouchMove(Interacted, pilot.touches, ratio),
                "touchmove", pilot.touches, ratio)

\* A finger leaves the canvas
TouchEnd ==
  /\ pilot.touches > 0
  /\ PageDone(onTouchEnd([Interacted EXCEPT !.P.touches = @ - 1]),
              "touchend", pilot.touches - 1, 0)

\* A click on the AUTO button; b tells whether autopilot was active
AutoClick ==
  PageDone(onAutopilotClick(World), "autopilotClick",
           IF pilot.aimActive THEN 1 ELSE 0,
           IF pilot.autopilotActive THEN 1 ELSE 0)

\* The host runs a requested frame
AutopilotFrame ==
  \E id \in pilot.rafs, p \in FramePoints :
    PageDone(runAutopilotFrame([World EXCEPT !.P.rafs = @ \ {id}],
                               p[1], p[2], p[3]),
             "autopilotFrame", id, 0)

\* A timeout of the page comes due; a tells whether it was clean
ArmTimerFires ==
  \E t \in pilot.timeouts :
    /\ t.kind = "arm"
    /\ PageDone(armTimerFires([World EXCEPT !.P.timeouts = @ \ {t}]),
                "armTimer", IF t.clean THEN 1 ELSE 0, t.id)

ResumeTimerFires ==
  \E t \in pilot.timeouts :
    /\ t.kind = "resume"
    /\ PageDone(resumeTimerFires([World EXCEPT !.P.timeouts = @ \ {t}]),
                "resumeTimer", 0, t.id)

ReturnTimerFires ==
  \E t \in pilot.timeouts :
    /\ t.kind = "return"
    /\ PageDone(returnTimerFires([World EXCEPT !.P.timeouts = @ \ {t}]),
                "returnTimer", 0, t.id)

\* The request of a poll in flight comes to its end and fetch() runs on
\* with the callback of the page
PagePollEnds ==
  /\ fetcher.inFlight > 0
  /\ \E resp \in PageResponses :
       PageDone(pagePoll(World, resp), "poll", 0, 0)

\* startAudio() calls that can be suspended at once
MaxResuming == 2

\* Slider positions <<space, colour, scatter, pulse, volume>>, in 1/100
SliderSettings == {<<80, 50, 50, 25, 80>>, <<0, 100, 0, 100, 100>>}

\* Positions of the signal slider, in 1/100
SignalSettings == {35}

\* The click handler of the start button while the engine is running:
\* stopAudio()
ClickStop ==
  /\ isStarted
  /\ PageDone(stopAudio([World EXCEPT !.P = Dirty(@)]), "stopAudio", 0, 0)

\* The click handler while the engine is not running: startAudio() runs up
\* to its await.  Whether the class "hidden" keeps clicks from the button is
\* decided by a stylesheet, not by this code: a click can come at any time.
ClickStart ==
  /\ ~isStarted
  /\ app.resuming < MaxResuming
  /\ app' = startAudioBegin(app)
  /\ pilot' = startAudioReset(pilot)
  /\ UNCHANGED <<engine, lastOp, ops, snapshot, mapped, generativeBg,
                 signalLayer, fetcher, proxy>>

\* audioCtx.resume() has resolved and a suspended startAudio() runs on to
\* its end; if engine.start raises, nothing after it runs.  b tells whether
\* the engine was running when engine.start was called.
AudioResumedWith(Sliders, Streams) ==
  /\ app.resuming > 0
  /\ ops < MaxOps
  /\ \E sl \in Sliders, r \in Streams, signal \in SignalSettings,
        k \in DOMAIN pilot.suspended :
       LET W == startAudioResumed(World, k, sl, signal, r)
       IN /\ Commit(W.E)
          /\ lastOp' = [op |-> "startAudio", a |-> r,
                        b |-> IF isStarted THEN 1 ELSE 0]
          /\ fetcher' = W.F
          /\ signalLayer' = W.L
          /\ generativeBg' = W.G
          /\ pilot' = W.P
          /\ app' = [app EXCEPT !.resuming = @ - 1,
                                !.hidden = IF W.E.threw THEN @ ELSE FALSE,
                                !.sliders = sl]
  /\ ops' = ops + 1
  /\ UNCHANGED <<snapshot, mapped, proxy>>

AudioResumed == AudioResumedWith(SliderSettings, DOMAIN RandStreams)

NextApp == ClickStart \/ ClickStop \/ AudioResumed
SpecApp == Init /\ [][NextApp]_vars

\* ---- the page under every event, with one setting of the sliders

PageAudioResumed == AudioResumedWith({<<80, 50, 50, 25, 80>>}, {1})

NextPage ==
  \/ ClickStart
  \/ ClickStop
  \/ PageAudioResumed
  \/ PointerDown
  \/ PointerMove
  \/ PointerUp
  \/ PointerLeave
  \/ Wheel
  \/ TouchStart
  \/ TouchMove
  \/ TouchEnd
  \/ AutoClick
  \/ AutopilotFrame
  \/ ArmTimerFires
  \/ ResumeTimerFires
  \/ ReturnTimerFires
  \/ PagePollEnds

SpecPage == Init /\ [][NextPage]_vars

\* ----------------------------------------------------------------- claims

\* The targets standing on the engine's audio parameters
audioTargets ==
  <<voices, grainLines, grainInputGain, grainOutputGain, filterFreq, filterQ,
    reverbGain, dryGain, masterGain, masterRampMs, lfoFreq, lfoGain>>

Lines == 1..Len(grainLines)
Voices == 1..Len(voices)

\* C1: while the engine is running, every voice of the bank has a scheduled
\* gain target, and it is MASTER * baseGains[i] * presence * density * unfold
\* for the current zoom, density weights and unfold amount.
C1_GainIsProduct ==
  isStarted =>
    \A i \in Voices :
      /\ voices[i].sched
      /\ ~TargetIsNaN(Eng, i)
      /\ voices[i].gain =
           VoiceTarget(i, Len(voices), zoomNorm, voiceDensity[i], unfoldAmount)

\* C2: on a running engine, after updateFromData, updateFromCoords or an
\* evolution tick has returned, every parameter Zoom writes holds the
\* zoom-derived target for the current zoom, and the call did not raise.
C2_ZoomReappliedLast ==
  (isStarted /\ lastOp.op \in {"updateFromData", "updateFromCoords", "tick"}) =>
    /\ ~threw
    /\ grainOutputGain = 50000 + 7000 * zoomNorm
    /\ \A j \in Lines : grainLines[j].feedback = 200000 + 3000 * zoomNorm
    /\ lfoGain = 10000 + 300 * zoomNorm
    /\ filterQ = 28000 - 200 * zoomNorm

C4_GainSingleWriter ==
  /\ gainWriters \subseteq {"_applyZoom"}
  /\ \A i \in Voices : ~voices[i].sched => voices[i].gain = 0

\* updateFromData has stored density weights on a running engine
C4_Witness ==
  /\ isStarted
  /\ lastOp.op = "updateFromData"
  /\ \E i \in DOMAIN voiceDensity : voiceDensity[i] # 10000
  /\ gainWriters = {"_applyZoom"}

\* C5: with every input in its nominal range, no feedback target scheduled by
\* any operation, and none standing on a grain line, exceeds 0.9.
C5_FeedbackCeiling ==
  /\ \A x \in fbWritten : x <= 900000
  /\ \A j \in Lines : grainLines[j].feedback <= 900000

\* An evolution tick whose feedback walk was stopped by the ceiling
C5_Witness ==
  /\ lastOp.op = "tick"
  /\ 900000 \in fbWritten

\* C6: what a macro setter leaves is what it leaves for its input clamped to
\* [0,1].
C6_MacrosClampInput ==
  LET v == Max(0, Min(100, lastOp.a))
  IN ctx =>
       /\ lastOp.op = "setVolume" => masterGain = VolumeTarget(v)
       /\ lastOp.op = "setSpace" =>
            /\ blend = v
            /\ reverbGain = SpaceWet(v) /\ dryGain = SpaceDry(v)
            /\ \A j \in Lines :
                 /\ grainLines[j].outputGain = SpaceGrainOut(v)
                 /\ grainLines[j].feedback = SpaceGrainFb(v)
       /\ lastOp.op = "setColour" =>
            /\ cutoffOverride = <<v>>
            /\ filterFreq = ColourHz(v) /\ filterQ = ColourQ(v)
       /\ lastOp.op = "setScatter" =>
            /\ grainInputGain = ScatterInput(v)
            /\ \A j \in Lines :
                 /\ grainLines[j].feedback = ScatterFeedback(v)
                 /\ grainLines[j].modGain = ScatterModDepth(v)
       /\ lastOp.op = "setPulse" =>
            /\ pulseAmount = v
            /\ lfoFreq = PulseRate(v) /\ lfoGain = PulseDepth(v)
       /\ lastOp.op = "setZoom" => zoomNorm = v

PublicOps ==
  {"updateFromData", "updateFromCoords", "setVolume", "setSpace", "setColour",
   "setScatter", "setPulse", "setZoom", "setChord"}

\* C7: an update or macro operation invoked while the engine is not started
\* raises nothing and leaves every audio-parameter target as it was.
C7_NotStartedNoOp ==
  [][(~isStarted /\ ops' = ops + 1 /\ lastOp'.op \in PublicOps) =>
       (audioTargets' = audioTargets /\ ~threw')]_vars

\* C8: while the engine is running the bank holds exactly 9 voices, all built
\* by the most recent start().
C8_NineFreshVoices ==
  isStarted =>
    /\ Len(voices) = 9
    /\ \A i \in Voices : voices[i].sess = session

\* C9: at most one evolution interval is armed, and it is the one the engine
\* holds; while the engine is not started none is armed and the tick count
\* does not move.
C9_TimerIdempotent ==
  /\ [](/\ Cardinality(timers) <= 1
        /\ timers \subseteq {evolveTimer}
        /\ ~isStarted => (timers = {} /\ evolveTimer = 0))
  /\ [][~isStarted => ticks' = ticks]_vars

\* stop() has returned on an engine whose timer was armed
C9_Witness ==
  /\ lastOp.op = "stop"
  /\ timerSeq >= 1
  /\ timers = {}

\* C10: when stop() has returned on an engine that was started, the master
\* gain is ramping to 0 over 0.5 s, every oscillator ever started has its stop
\* scheduled 0.6 s ahead, after the fade, and isStarted is false.
C10_StopFadesThenStops ==
  (lastOp.op = "stop" /\ ctx) =>
    /\ masterGain = 0
    /\ masterRampMs = 500
    /\ \A k \in 1..Len(nodes) :
         nodes[k].stopAt = 600 /\ nodes[k].stopAt > masterRampMs
    /\ ~isStarted

\* stop() has returned on the second session of one engine
C10_Witness ==
  /\ lastOp.op = "stop"
  /\ session = 2
  /\ \E k \in 1..Len(nodes) : nodes[k].kind = "driftOsc" /\ nodes[k].sess = 2

\* C11: no operation raises an exception (a non-finite target handed to an
\* audio parameter raises a TypeError).
C11_NothingRaises == ~threw

\* C12: once start() has run, the zoom is within [0,1], voice 0's presence is 1
\* in both variants for the zoom of the state and, wherever setZoom has just
\* run, for every zoom in [0,1]; the gain standing on voice 0 is the
\* full-presence product.
C12_RootAlwaysPresent ==
  ctx =>
    /\ zoomNorm \in 0..100
    /\ Presence(zoomNorm, 1) = 12 /\ Presence4(zoomNorm, 1) = 100
    /\ lastOp.op = "setZoom" =>
         \A z \in 0..100 : Presence(z, 1) = 12 /\ Presence4(z, 1) = 100
    /\ voices[1].sched =>
         voices[1].gain = VoiceTarget(1, Len(voices), 100, voiceDensity[1],
                                      unfoldAmount)

\* setZoom has brought a running engine to zoom 0 and the root still sounds
C12_Witness ==
  /\ isStarted
  /\ lastOp.op = "setZoom"
  /\ zoomNorm = 0
  /\ voices[1].gain > 0

\* C13: on a running engine a voice whose threshold the zoom has not passed
\* has gain target 0, whatever its density weight and the unfold amount; at
\* the threshold the product is 0 for the weights and the unfold amount of the
\* state, and wherever setZoom has just run the presence is 0 for every zoom
\* at or below the threshold.
C13_PresenceIsHardGate ==
  isStarted =>
    \A i \in Voices :
      i <= Len(thresholds) =>
        /\ zoomNorm <= thresholds[i] => voices[i].gain = 0
        /\ lastOp.op = "setZoom" =>
             \A z \in 0..100 : z <= thresholds[i] => Presence(z, i) = 0
        /\ VoiceTarget(i, Len(voices), Min(100, thresholds[i]), voiceDensity[i],
                       unfoldAmount) = 0

\* An update stored a non-zero weight for a voice the zoom keeps closed
C13_Witness ==
  /\ isStarted
  /\ lastOp.op \in {"updateFromData", "updateFromCoords"}
  /\ \E i \in Voices :
       /\ i <= Len(thresholds)
       /\ zoomNorm <= thresholds[i]
       /\ voiceDensity[i] > 0
       /\ voices[i].sched
       /\ voices[i].gain = 0

\* C14: every parameter a ramp is ever scheduled on settles to the target of
\* the last write made to it.
C14_LaterWriteWins ==
  ctx =>
    /\ timeline.masterGain.value = masterGain
    /\ timeline.filterFreq.value = filterFreq
    /\ timeline.reverbGain.value = reverbGain
    /\ timeline.dryGain.value = dryGain
    /\ timeline.lfoFreq.value = lfoFreq
    /\ \A j \in Lines : timeline.grainOutput[j].value = grainLines[j].outputGain

\* C15: for the default snapshot the mapped density is the value of the
\* "cluster" keyword.
C15_DefaultDensityIsCluster ==
  snapshot = <<DEFAULT_OBSERVATION>> =>
    mapped[1].density = targetTypeToDensity(<<"c","l","u","s","t","e","r">>)

\* The bounds a well-formed snapshot's parameters satisfy
InBounds(p) ==
  /\ p.filterCutoffHz # NaN
  /\ 20000 <= p.filterCutoffHz /\ p.filterCutoffHz <= 160000
  /\ 2500 <= p.reverbMix /\ p.reverbMix <= 9000
  /\ p.lfoRateHz # NaN
  /\ p.lfoRateHz > 0
  /\ p.harmonicCount \in 1..4
  /\ 0 <= p.density /\ p.density <= 10000

\* C16: whatever snapshot is mapped, malformed ones included, every mapped
\* parameter is a finite number within its bounds.
C16_MalformedStaysInBounds == mapped # <<>> => InBounds(mapped[1])

KnownInstruments ==
  {<<"n","i","r","s","p","e","c">>, <<"n","i","r","c","a","m">>,
   <<"m","i","r","i">>, <<"n","i","r","i","s","s">>, <<"f","g","s">>}

C18_DataSetsCutoff ==
  (isStarted /\ lastOp.op = "updateFromData") =>
    filterFreq = decToFilterCutoff(Observations[lastOp.a].dec)

\* C19: every value an evolution tick produces, the ones the zoom application
\* then overwrites included, and every target standing when the tick returns,
\* is inside its range.
C19_TickStaysInRanges ==
  [][(ops' = ops + 1 /\ lastOp'.op = "tick" /\ isStarted) =>
       LET F == EvolveFilter(Begin, lastOp'.a, Intensity(pulseAmount))
       IN /\ 0 <= unfoldAmount' /\ unfoldAmount' <= 10000
          /\ 14000 <= filterFreq' /\ filterFreq' <= 550000
          /\ 3000 <= F.filterQ /\ F.filterQ <= 80000
          /\ 3000 <= filterQ' /\ filterQ' <= 80000
          /\ 150000 <= reverbGain' /\ reverbGain' <= 2200000
          /\ 30000 <= dryGain' /\ dryGain' <= 500000
          /\ \A j \in 1..Len(grainLines') :
               /\ 3000 <= grainLines'[j].modGain
               /\ grainLines'[j].modGain <= 60000
               /\ 80000 <= grainLines'[j].feedback
               /\ grainLines'[j].feedback <= 900000
          /\ \A x \in fbWritten' : 80000 <= x /\ x <= 900000
          /\ \A i \in 1..Len(voices') :
               800 <= voices'[i].driftGain /\ voices'[i].driftGain <= 24000]_vars

\* A tick whose drift walk was stopped by the lower end of its range
C19_Witness ==
  /\ lastOp.op = "tick"
  /\ ticks >= 1
  /\ \E i \in Voices : voices[i].driftGain = 800

\* C20: _pulseAmount is the value of the most recent setPulse call clamped to
\* [0,1] (setPulse stores it, nothing else changes it), and a tick walks with
\* the intensity 0.15 + 0.85 * _pulseAmount.
C20_IntensityFollowsPulse ==
  [][ops' = ops + 1 =>
       /\ lastOp'.op = "setPulse" => pulseAmount' = clamp(lastOp'.a, 0, 100)
       /\ lastOp'.op # "setPulse" => pulseAmount' = pulseAmount
       /\ (lastOp'.op = "tick" /\ isStarted) =>
            unfoldAmount' =
              Walk(unfoldAmount, Signed(lastOp'.a, 1),
                   1200 + (34 * (1500 + 85 * pulseAmount)) \div 100, 0, 10000)]_vars

\* C21: applying the same zoom twice in a row gives the same targets both
\* times.  Wherever setZoom has just run on a running engine, running it again
\* with the same value leaves every voice gain, the grain output and feedback,
\* the LFO depth and the filter Q as they stand (and raises iff the first call
\* raised); and a setZoom that follows a setZoom with the same zoom changes no
\* audio-parameter target.
C21_ZoomIdempotent ==
  /\ [](( isStarted /\ lastOp.op = "setZoom") =>
          LET Z == setZoom(Begin, lastOp.a)
          IN /\ Z.voices = voices
             /\ Z.grainOutputGain = grainOutputGain
             /\ Z.grainLines = grainLines
             /\ Z.lfoGain = lfoGain
             /\ Z.filterQ = filterQ
             /\ Z.threw = threw)
  /\ [][(isStarted /\ lastOp.op = "setZoom" /\ ops' = ops + 1
          /\ lastOp'.op = "setZoom" /\ zoomNorm' = zoomNorm) =>
         (audioTargets' = audioTargets /\ threw' = threw)]_vars

\* setZoom has run on a running engine whose density weights an update has
\* shaped: some voices sound, some are closed
C21_Witness ==
  /\ isStarted
  /\ lastOp.op = "setZoom"
  /\ zoomNorm = 50
  /\ ~threw
  /\ \E i \in DOMAIN voiceDensity : voiceDensity[i] # 10000
  /\ \E i \in Voices : voices[i].gain > 0
  /\ \E i \in Voices : voices[i].gain = 0

\* C22: on a running engine every voice's frequency target is the one
\* buildFreqs gives for the last (root, mode) pair handed to setChord (the
\* initial pair if there was none), whatever chords came before, and setChord
\* raises nothing.
C22_ChordFromLastPair ==
  isStarted =>
    LET f == buildFreqs(rootSemitones, chordMode)
    IN /\ lastOp.op = "setChord" => ~threw
       /\ \A i \in Voices : i <= Len(f) /\ voices[i].freq = f[i]

\* Declinations within [-90, 90], in 1/100 degree
Declinations == -9000..9000

\* C23: for a snapshot whose declination is within [-90, 90] the mapped
\* filter cutoff is within [200, 1600] Hz, no declination below it maps to a
\* higher cutoff and none above it to a lower one; where the declination
\* mapped is +90, the cutoff of every declination of the range is at most
\* that of the next one.
C23_CutoffMonotoneBounded ==
  (mapped # <<>> /\ snapshot[1].dec \in Declinations) =>
    LET c == mapped[1].filterCutoffHz
    IN /\ 20000 <= c /\ c <= 160000
       /\ \A d \in Declinations :
            /\ d <= snapshot[1].dec => decToFilterCutoff(d) <= c
            /\ d >= snapshot[1].dec => decToFilterCutoff(d) >= c
       /\ snapshot[1].dec = 9000 =>
            \A d \in Declinations \ {9000} :
              decToFilterCutoff(d) <= decToFilterCutoff(d + 1)

\* A snapshot with a declination inside the range has been mapped to a cutoff
\* strictly inside the bounds
C23_Witness ==
  /\ mapped # <<>>
  /\ snapshot[1].dec = -7345
  /\ mapped[1].filterCutoffHz > 20000
  /\ mapped[1].filterCutoffHz < 160000

\* A poll that came to a non-empty result list
Succeeded(resp) == resp.kind = "json" /\ resp.results # <<>>

\* C24: every completed poll has invoked the callback exactly once, with the
\* upstream snapshot stamped with the current time if the request came to a
\* non-empty result list, and otherwise with DEFAULT_OBSERVATION stamped with
\* the current time; the promise of fetch() is never rejected.
C24_CallbackOncePerPoll ==
  fetcher.polls > 0 =>
    /\ ~fetcher.rejected
    /\ Len(fetcher.delivered) = 1
    /\ fetcher.delivered[1].timestamp = fetcher.clock
    /\ IF Succeeded(fetcher.lastResp)
       THEN \E k \in 1..Len(fetcher.lastResp.results) :
              /\ fetcher.delivered[1].ra = fetcher.lastResp.results[k].targ_ra
              /\ fetcher.delivered[1].dec = fetcher.lastResp.results[k].targ_dec
       ELSE fetcher.delivered[1] = FreshDefault(fetcher.clock)

XCacheValues == {"HIT", "MISS", "STALE", "FALLBACK"}

UpstreamFailures == {"status", "error", "timeout"}

\* C26: a response that follows an upstream failure carries the cached body
\* marked STALE if a body was ever cached, and otherwise the fallback body
\* marked FALLBACK, and the failure left the cache as it was; the cached body
\* is always the body of a successful upstream response.
C26_StaleElseFallback ==
  /\ (proxy.last # <<>> /\ proxy.last[1].outcome \in UpstreamFailures) =>
       /\ IF proxy.last[1].everCachedBefore
          THEN /\ proxy.last[1].xcache = "STALE"
               /\ proxy.last[1].body = proxy.last[1].cachedBefore[1]
          ELSE /\ proxy.last[1].xcache = "FALLBACK"
               /\ proxy.last[1].body = FALLBACK_BODY
       /\ proxy.cachedBody = proxy.last[1].cachedBefore
  /\ proxy.cachedBody # <<>> => proxy.cachedBody[1] \in proxy.okBodies

\* C27: no upstream request is issued less than 5 minutes after a successful
\* fetch completed, and none while another upstream request is in flight.
C27_OneUpstreamPerWindow ==
  /\ Len(proxy.inFlight) <= 1
  /\ \A k \in 1..Len(proxy.issued) :
       ~proxy.issued[k].fresh /\ ~proxy.issued[k].concurrent

\* C28: engine.start() is invoked by startAudio only while the engine is not
\* running.
C28_StartOnlyWhenStopped ==
  [][(ops' = ops + 1 /\ lastOp'.op = "startAudio") => ~isStarted]_vars

\* C29: the LFO depth target never exceeds 0.05.
C29_LfoDepthCeiling == lfoGain <= 50000

\* The root oscillator that sounds: the first voice the most recent start()
\* built
SoundingRoot == CHOOSE i \in Voices :
                  /\ voices[i].sess = session
                  /\ \A j \in Voices : voices[j].sess = session => i <= j

Open(z) == {i \in Voices : i <= Len(thresholds) /\ Presence(z, i) > 0}

\* The same for the 4-voice variant's formula
Open4(z) == {i \in 1..4 : Presence4(z, i) > 0}

\* C31: on a running engine the voices with non-zero presence are a prefix of
\* the bank: voice 0 alone at zoom 0, the whole bank at zoom 1, and wherever
\* setZoom has just run a prefix that does not shrink as the zoom grows, for
\* every zoom in [0,1] and in both variants' formulas.
C31_ZoomOpensInOrder ==
  isStarted =>
    /\ \E k \in Voices : Open(zoomNorm) = 1..k
    /\ zoomNorm = 0 => Open(0) = {1} /\ Open4(0) = {1}
    /\ zoomNorm = 100 => Open(100) = Voices /\ Open4(100) = 1..4
    /\ lastOp.op = "setZoom" =>
         \A z \in 0..99 :
           /\ \E k \in Voices : Open(z) = 1..k /\ Open(z) \subseteq Open(z + 1)
           /\ \E k \in 1..4 : Open4(z) = 1..k /\ Open4(z) \subseteq Open4(z + 1)

\* C32: every track of the signal layer other than the current one has gain
\* target 0.
C32_OnlyActiveTrackSounds ==
  \A k \in DOMAIN signalLayer.trackGains :
    k # signalLayer.currentTrack => signalLayer.trackGains[k] = 0

\* A walk step has just faded a playing layer over to another track
C32_Witness ==
  /\ signalLayer.last = "walk"
  /\ signalLayer.playing # {}
  /\ signalLayer.currentTrack # "chorus"
  /\ signalLayer.trackGains[signalLayer.currentTrack] = 100
  /\ signalLayer.trackGains["chorus"] = 0

\* C35: from stop() until the next connect() no walk timeout is armed and no
\* track element is playing.
C35_QuiescentAfterStop ==
  signalLayer.stopped =>
    /\ signalLayer.armed = {}
    /\ signalLayer.playing = {}

\* C37: at most one walk timeout is armed; none is armed while scan mode is
\* on, and a walk step taken while scan mode is on leaves the track alone.
C37_OneWalkTimerNoneInScan ==
  /\ [](/\ Cardinality(signalLayer.armed) <= 1
        /\ signalLayer.scanMode => signalLayer.armed = {})
  /\ [][(signalLayer'.last = "walk" /\ signalLayer.scanMode) =>
          signalLayer'.currentTrack = signalLayer.currentTrack]_vars

\* beginScan has cancelled the timeout that a reschedule had armed in the
\* place of an earlier one
C37_Witness ==
  /\ signalLayer.last = "beginScan"
  /\ signalLayer.scanMode
  /\ signalLayer.timerSeq >= 2
  /\ signalLayer.armed = {}

\* stop() has returned and start() has not been called since
FetcherStopped == fetcher.callback /\ fetcher.intervalId = 0

\* C36: a poll that completes after stop() has returned hands nothing to the
\* callback, and no poll begins after stop().
C36_NoCallbackAfterStop ==
  [][FetcherStopped =>
       /\ fetcher'.begun > fetcher.begun => ~FetcherStopped'
       /\ fetcher'.polls > fetcher.polls => fetcher'.delivered = <<>>]_vars

\* C34: once startAudio() has run to its end, the parameters only the
\* macros write hold the targets of the slider values it read: master gain
\* (Volume), filter cutoff (Colour), grain input feed and modulation depth
\* (Scatter), pulse amount (Pulse) and the stored blend (Space).
C34_SlidersInEffect ==
  (lastOp.op = "startAudio" /\ ~threw) =>
    /\ blend = Clamp01(app.sliders[1])
    /\ filterFreq = ColourHz(app.sliders[2])
    /\ grainInputGain = ScatterInput(app.sliders[3])
    /\ \A j \in Lines : grainLines[j].modGain = ScatterModDepth(app.sliders[3])
    /\ pulseAmount = clamp(app.sliders[4], 0, 100)
    /\ masterGain = VolumeTarget(app.sliders[5])

\* C40: a frame rendered once the crossfade time of a pending scene change
\* has elapsed makes the new scene the current one: scene is the scene that
\* was pending, nextScene is null and the buffers are swapped.
C40_SceneChangeCompletes ==
  [][(/\ generativeBg'.last = "render"
      /\ generativeBg'.calls = generativeBg.calls + 1
      /\ generativeBg.nextScene # <<>>
      /\ generativeBg.crossfadeStart # <<>>
      /\ generativeBg.now - generativeBg.crossfadeStart[1]
           >= crossfadeDuration) =>
       /\ generativeBg'.scene = generativeBg.nextScene
       /\ generativeBg'.nextScene = <<>>
       /\ generativeBg'.useB # generativeBg.useB]_vars

\* C38: while the user is aiming, no frame of autopilot is pending: user
\* aim and autopilot never drive the sky coordinates at the same time
C38_AimExcludesAutopilot == pilot.aimActive => pilot.rafs = {}

\* C39: a click on the AUTO button that stops autopilot while the user is
\* not aiming and the engine is running drives the engine from the last live
\* observation, as engine.updateFromData(lastObservation) would
C39_StopAutopilotRedrivesEngine ==
  [][(/\ lastOp'.op = "autopilotClick"
      /\ ops' = ops + 1
      /\ pilot.autopilotActive
      /\ ~pilot.aimActive
      /\ isStarted)
     => LET D == updateFromData(Begin, pilot.lastObservation)
        IN /\ filterFreq' = D.filterFreq
           /\ filterQ' = D.filterQ
           /\ lfoFreq' = D.lfoFreq
           /\ voiceDensity' = D.voiceDensity
           /\ voices' = D.voices]_vars

\* C33: the arm timer starts autopilot only if no aim, wheel or touch
\* interaction and no stopAudio() has happened since the startAudio() that
\* armed it began, autopilot is not active and the engine is started
C33_ArmTimerStartsAutopilotOnlyUntouched ==
  [][(/\ lastOp'.op = "armTimer"
      /\ ops' = ops + 1
      /\ pilot'.autopilotActive
      /\ ~pilot.autopilotActive)
     => (lastOp'.a = 1 /\ isStarted)]_vars

====
